---- MODULE Spec2Model ----
(***************************************************************************)
(* OpenCache: the reference simulator (verify/sim_cache.py) and the cache  *)
(* controllers (cache/direct_cache.py, cache/n_way_fifo_cache.py,          *)
(* cache/n_way_lru_cache.py) as state machines.                            *)
(*                                                                         *)
(* The simulator is the Python object `sc` of test_data.py; one action per *)
(* public method.  The controllers are clocked: one action per clock tick, *)
(* which evaluates every always-block of the design on the current         *)
(* registers and inputs and then latches the next values.                  *)
(***************************************************************************)
EXTENDS Integers, Sequences, FiniteSets, TLC

(***************************************************************************)
(* Bounds of the model.                                                    *)
(***************************************************************************)
\* number of simulator calls explored in one behaviour
MaxOps == 3
\* tags used by the explored requests are 0..MaxTag
MaxTag == 2
\* consecutive calls of stall_cycles explored between two requests
MaxQueries == 2

\* DRAM round trip in clock cycles (verify/sim_dram.py, imported by sim_cache)
DRAM_DELAY == 2

\* Python's None, and the exceptions a call can raise
None == -1
NoError == "none"
ValueError == "ValueError"
IndexError == "IndexError"
TypeError == "TypeError"

VARIABLES
    cfg,        \* the cache configuration (OPTS and the derived geometry)
    sc,         \* the sim_cache object
    dram0,      \* DRAM contents when the simulator was constructed
    last,       \* the last simulator call: its name, arguments and result
    expect,     \* per address: data of the most recent full-mask write
    held,       \* per address: data written with a full mask and still cached
    ops,        \* number of requests (reset, flush, read, write) so far
    ff,         \* the flip-flops of the design
    sram,       \* the tag, data and use arrays and their read outputs
    main,       \* main memory: its lines, its output and the cycles it stays busy
    pins,       \* the inputs of the design in the last tick
    sig,        \* the signals the design drove in the last tick
    tb,         \* what the test bench has measured
    trail,      \* the calls of a scenario so far, in order
    opts        \* OPTS of globals.py, and how far the start-up has come with it

simVars == <<cfg, sc, dram0, last, expect, held, ops>>
ctrlVars == <<ff, sram, main, pins, sig, tb>>
vars == <<cfg, sc, dram0, last, expect, held, ops, ff, sram, main, pins, sig, tb, trail, opts>>

(***************************************************************************)
(* Configuration.  The geometry is derived as in spec section 3:           *)
(* num_rows * num_ways * words_per_line words in total, and                *)
(* tag_size + set_size + offset_size = address_size.                       *)
(***************************************************************************)
RECURSIVE Log2(_)
Log2(n) == IF n <= 1 THEN 0 ELSE 1 + Log2(n \div 2)

Geometry(policy, data_hazard, num_ways, num_rows, words_per_line, tag_size, word_size, write_size) ==
    [ replacement_policy |-> policy,
      data_hazard    |-> data_hazard,
      num_ways       |-> num_ways,
      num_rows       |-> num_rows,
      words_per_line |-> words_per_line,
      way_size       |-> Log2(num_ways),
      set_size       |-> Log2(num_rows),
      offset_size    |-> Log2(words_per_line),
      tag_size       |-> tag_size,
      address_size   |-> tag_size + Log2(num_rows) + Log2(words_per_line),
      word_size      |-> word_size,
      write_size     |-> write_size,
      num_masks      |-> IF write_size = None THEN 0 ELSE word_size \div write_size ]

num_ways        == cfg.num_ways
num_rows        == cfg.num_rows
words_per_line  == cfg.words_per_line
way_size        == cfg.way_size
set_size        == cfg.set_size
offset_size     == cfg.offset_size
tag_size        == cfg.tag_size
address_size    == cfg.address_size
word_size       == cfg.word_size
write_size      == cfg.write_size
num_masks       == cfg.num_masks

Ways == 0 .. num_ways - 1
Rows == 0 .. num_rows - 1
Words == 0 .. words_per_line - 1

Max(a, b) == IF a >= b THEN a ELSE b

(***************************************************************************)
(* Python's string formatting, slicing and int(s, 2), on sequences of bits.*)
(***************************************************************************)
RECURSIVE Bits(_)
Bits(x) == IF x < 2 THEN <<x>> ELSE Append(Bits(x \div 2), x % 2)

\* "{0:0{1}b}".format(x, width): at least `width` digits, never fewer than needed
Format(x, width) ==
    LET b == Bits(x)
    IN  IF Len(b) >= width THEN b ELSE [i \in 1 .. (width - Len(b)) |-> 0] \o b

SliceIndex(i, n) == IF i < 0 THEN Max(n + i, 0) ELSE IF i > n THEN n ELSE i

\* s[lo:hi]
PySlice(s, lo, hi) ==
    LET a == SliceIndex(lo, Len(s))
        b == SliceIndex(hi, Len(s))
    IN  IF a >= b THEN <<>> ELSE SubSeq(s, a + 1, b)

RECURSIVE BinVal(_)
BinVal(s) == IF s = <<>> THEN 0 ELSE 2 * BinVal(SubSeq(s, 1, Len(s) - 1)) + s[Len(s)]

\* int(s, 2): raises ValueError on the empty string
ParseInt(s) == IF s = <<>> THEN None ELSE BinVal(s)

merge_address(tag_decimal, set_decimal, offset_decimal) ==
    LET tag_binary    == Format(tag_decimal, tag_size)
        set_binary    == Format(set_decimal, set_size)
        offset_binary == Format(offset_decimal, offset_size)
    IN  ParseInt(tag_binary \o set_binary \o offset_binary)

\* <<tag, set, offset>>; a component is None where int() raises ValueError
parse_address(address) ==
    LET address_binary == Format(address, address_size)
        tag_binary     == PySlice(address_binary, 0, tag_size)
        set_binary     == PySlice(address_binary, tag_size, tag_size + set_size)
        \* address_binary[-offset_size:], where -0 is 0
        offset_binary  == PySlice(address_binary, 0 - offset_size, Len(address_binary))
    IN  <<ParseInt(tag_binary), ParseInt(set_binary), ParseInt(offset_binary)>>

parse_raises(address) ==
    \E i \in 1 .. 3 : parse_address(address)[i] = None

(***************************************************************************)
(* sim_cache.  Every method is an operator from the object's fields `s`    *)
(* (and the arguments) to the fields after the call, with the returned     *)
(* value `ret` and the exception raised `exc`.                             *)
(***************************************************************************)
Result(s, ret, exc) == [s |-> s, ret |-> ret, exc |-> exc]

update_random(s, cycles) ==
    IF cfg.replacement_policy = "RANDOM"
    THEN [s EXCEPT !.random = (s.random + cycles) % num_ways]
    ELSE s

update_fifo(s, set_decimal) ==
    IF cfg.replacement_policy = "FIFO"
    THEN [s EXCEPT !.fifo_array[set_decimal] = (s.fifo_array[set_decimal] + 1) % num_ways]
    ELSE s

\* A faulty update_lru that ranks the way on top and moves no other way down
update_lru_no_shift(s, set_decimal, way) ==
    IF cfg.replacement_policy = "LRU"
    THEN [s EXCEPT !.lru_array[set_decimal][way] = num_ways - 1]
    ELSE s

\* The loop runs over the ways in order and compares with the rank of `way`
\* as it is when way i is visited; the rank of `way` itself is written last.
update_lru(s, set_decimal, way) ==
    IF cfg.replacement_policy = "LRU"
    THEN [s EXCEPT !.lru_array[set_decimal] =
            [i \in Ways |->
                IF i = way THEN num_ways - 1
                ELSE IF s.lru_array[set_decimal][i] > s.lru_array[set_decimal][way]
                     THEN s.lru_array[set_decimal][i] - 1
                     ELSE s.lru_array[set_decimal][i]]]
    ELSE s

reset(s) ==
    LET cleared ==
          [s EXCEPT !.valid_array = [r \in Rows |-> [w \in Ways |-> 0]],
                    !.dirty_array = [r \in Rows |-> [w \in Ways |-> 0]],
                    !.tag_array   = [r \in Rows |-> [w \in Ways |-> 0]],
                    !.data_array  = [r \in Rows |-> [w \in Ways |-> [j \in Words |-> 0]]],
                    !.prev_hit    = FALSE,
                    !.prev_web    = 1,
                    !.prev_set    = None,
                    !.fifo_array  = [r \in Rows |-> 0],
                    !.lru_array   = [r \in Rows |-> [w \in Ways |-> 0]],
                    !.random      = 0]
    IN  Result(update_random(cleared, num_rows + 1), num_rows + 1 - 1, NoError)

\* A faulty find_way that reports every address as absent
find_way_never(s, address) == None

find_way(s, address) ==
    LET tag_decimal == parse_address(address)[1]
        set_decimal == parse_address(address)[2]
        hits == {way \in Ways : s.valid_array[set_decimal][way] = 1
                                /\ s.tag_array[set_decimal][way] = tag_decimal}
    IN  IF hits = {} THEN None ELSE CHOOSE way \in hits : \A o \in hits : way <= o

is_dirty(s, address) ==
    LET set_decimal == parse_address(address)[2]
        way == find_way(s, address)
    IN  IF way # None THEN s.dirty_array[set_decimal][way] ELSE None

\* A faulty loop that stops at the first index satisfying the test
FirstOf(S) == IF S = {} THEN None ELSE CHOOSE i \in S : \A o \in S : i <= o

\* The last index in S satisfying the loop's test, None if there is none
LastOf(S) == IF S = {} THEN None ELSE CHOOSE i \in S : \A o \in S : o <= i

\* A faulty choice of the victim: way 0 whatever the policy's state is
way_to_evict_zero(s, set_decimal) == 0

way_to_evict(s, set_decimal) ==
    CASE cfg.replacement_policy = "NONE"   -> 0
      [] cfg.replacement_policy = "FIFO"   -> s.fifo_array[set_decimal]
      [] cfg.replacement_policy = "LRU"    ->
            LastOf({i \in Ways : s.lru_array[set_decimal][i] = 0})
      [] cfg.replacement_policy = "RANDOM" ->
            LET way == LastOf({i \in Ways : s.valid_array[set_decimal][i] = 0})
            IN  IF way = None THEN s.random ELSE way

\* A faulty hazard test that does not look at OPTS.data_hazard
is_data_hazard_armed(s, address) ==
    LET set_decimal == parse_address(address)[2]
    IN  IF s.prev_set = None \/ set_decimal # s.prev_set THEN FALSE
        ELSE IF cfg.replacement_policy = "LRU" THEN TRUE
        ELSE (s.prev_hit /\ s.prev_web = 0) \/ ~s.prev_hit

is_data_hazard(s, address) ==
    LET set_decimal == parse_address(address)[2]
    IN  IF ~cfg.data_hazard THEN FALSE
        ELSE IF s.prev_set = None \/ set_decimal # s.prev_set THEN FALSE
        ELSE IF cfg.replacement_policy = "LRU" THEN TRUE
        ELSE (s.prev_hit /\ s.prev_web = 0) \/ ~s.prev_hit

BoolInt(b) == IF b THEN 1 ELSE 0

\* A faulty line index that leaves the set out
DramLineNoSet(tag_decimal, set_decimal) == tag_decimal

\* (tag << set_size) + set
DramLine(tag_decimal, set_decimal) == tag_decimal * (2 ^ set_size) + set_decimal

\* A faulty hit branch that advances the FIFO number of the set
request_hit_advance(s1, set_decimal, way) ==
    Result([update_fifo(s1, set_decimal)
                EXCEPT !.prev_hit = TRUE, !.prev_web = 1, !.prev_set = set_decimal],
           way, NoError)

\* request, the hit branch: s1 is the object after the hazard update
request_hit(s1, set_decimal, way) ==
    Result([update_random(update_lru(s1, set_decimal, way), 1)
                EXCEPT !.prev_hit = TRUE, !.prev_web = 1, !.prev_set = set_decimal],
           way, NoError)

\* request, the write-back of the miss branch
request_write_back(s1, set_decimal, way_evict) ==
    IF s1.dirty_array[set_decimal][way_evict] = 1
    THEN update_random(
           [s1 EXCEPT !.dram[DramLine(s1.tag_array[set_decimal][way_evict], set_decimal)] =
                            s1.data_array[set_decimal][way_evict]],
           DRAM_DELAY + 1)
    ELSE s1

\* request, the line brought from DRAM: s2 is the object after the write-back
request_fill(s2, tag_decimal, set_decimal, way_evict) ==
    Result([update_random(
              update_lru(
                update_fifo(
                  [s2 EXCEPT !.valid_array[set_decimal][way_evict] = 1,
                             !.dirty_array[set_decimal][way_evict] = 0,
                             !.tag_array[set_decimal][way_evict]   = tag_decimal,
                             !.data_array[set_decimal][way_evict]  =
                                   s2.dram[DramLine(tag_decimal, set_decimal)]],
                  set_decimal),
                set_decimal, way_evict),
              1 + DRAM_DELAY + 1)
                EXCEPT !.prev_hit = FALSE, !.prev_web = 1, !.prev_set = set_decimal],
           way_evict, NoError)

\* request, the miss branch; indexing a list with None raises TypeError
request_miss(s1, tag_decimal, set_decimal, way_evict) ==
    IF way_evict = None THEN Result(s1, None, TypeError)
    ELSE request_fill(request_write_back(s1, set_decimal, way_evict),
                      tag_decimal, set_decimal, way_evict)

request_way(s1, tag_decimal, set_decimal, way) ==
    IF way # None
    THEN request_hit(s1, set_decimal, way)
    ELSE request_miss(s1, tag_decimal, set_decimal, way_to_evict(s1, set_decimal))

request(s, address) ==
    IF parse_raises(address) THEN Result(s, None, ValueError)
    ELSE request_way(update_random(s, BoolInt(is_data_hazard(s, address))),
                     parse_address(address)[1], parse_address(address)[2],
                     find_way(s, address))

\* read, after request returned r; p is the parsed address
read_data(r, p) ==
    IF r.exc # NoError THEN r
    ELSE IF p[3] \notin Words THEN Result(r.s, None, IndexError)
    ELSE Result(r.s, r.s.data_array[p[2]][r.ret][p[3]], NoError)

read(s, address) == read_data(request(s, address), parse_address(address))

\* A faulty mask loop that keeps the stored word
MaskLoopKeep(i, mask, data_input, orig_data) == orig_data

\* The write-mask loop from pass i on: part i of the word comes from
\* data_input if mask[-(i + 1)] is "1" and from the stored word otherwise.
RECURSIVE MaskLoop(_, _, _, _)
MaskLoop(i, mask, data_input, orig_data) ==
    IF i >= num_masks THEN 0
    ELSE (((IF mask[Len(mask) - i] = 1 THEN data_input ELSE orig_data)
                \div (2 ^ (i * write_size))) % (2 ^ write_size)) * (2 ^ (i * write_size))
         + MaskLoop(i + 1, mask, data_input, orig_data)

\* write, after request returned r; p is the parsed address
write_data(r, p, mask, data_input) ==
    IF r.exc # NoError THEN r
    ELSE IF p[3] \notin Words
    THEN Result([r.s EXCEPT !.dirty_array[p[2]][r.ret] = 1], None, IndexError)
    ELSE Result([r.s EXCEPT !.dirty_array[p[2]][r.ret] = 1,
                            !.data_array[p[2]][r.ret][p[3]] =
                                IF num_masks # 0
                                THEN MaskLoop(0, mask, data_input,
                                              r.s.data_array[p[2]][r.ret][p[3]])
                                ELSE data_input,
                            !.prev_web = 0],
                None, NoError)

write(s, address, mask, data_input) ==
    write_data(request(s, address), parse_address(address), mask, data_input)

\* A faulty miss branch that leaves out the cycles main memory is still busy
stall_cycles_miss_no_wait(s2, waited, set_decimal, evicted_way, hazard) ==
    IF evicted_way = None THEN Result(s2, None, TypeError)
    ELSE Result(IF hazard THEN update_random(s2, 0 - 1) ELSE s2,
                BoolInt(hazard) + 1
                    + (IF s2.dirty_array[set_decimal][evicted_way] = 1
                       THEN DRAM_DELAY * 2 + 1 ELSE DRAM_DELAY),
                NoError)

\* stall_cycles, the miss branch: s2 is the object with dram_stalls cleared,
\* waited the dram_stalls it held
stall_cycles_miss(s2, waited, set_decimal, evicted_way, hazard) ==
    IF evicted_way = None THEN Result(s2, None, TypeError)
    ELSE Result(IF hazard THEN update_random(s2, 0 - 1) ELSE s2,
                BoolInt(hazard) + 1 + waited
                    + (IF s2.dirty_array[set_decimal][evicted_way] = 1
                       THEN DRAM_DELAY * 2 + 1 ELSE DRAM_DELAY),
                NoError)

\* stall_cycles, after the temporary update of the random counter
stall_cycles_way(s1, set_decimal, way, hazard) ==
    IF way = None
    THEN stall_cycles_miss([s1 EXCEPT !.dram_stalls = 0], s1.dram_stalls, set_decimal,
                           way_to_evict(s1, set_decimal), hazard)
    ELSE Result(IF hazard THEN update_random(s1, 0 - 1) ELSE s1, BoolInt(hazard), NoError)

stall_cycles_hazard(s1, address, hazard) ==
    stall_cycles_way(s1, parse_address(address)[2], find_way(s1, address), hazard)

stall_cycles(s, address) ==
    IF parse_raises(address) THEN Result(s, None, ValueError)
    ELSE stall_cycles_hazard(
            IF is_data_hazard(s, address) THEN update_random(s, 1) ELSE s,
            address, is_data_hazard(s, address))

\* A faulty loop body that writes the line back and leaves it dirty
flush_line_keep(acc, row_i, way_i) ==
    LET s1 == [acc.s EXCEPT !.dram_stalls = Max(acc.s.dram_stalls - 1, 0)]
    IN  IF s1.valid_array[row_i][way_i] = 1 /\ s1.dirty_array[row_i][way_i] = 1
        THEN [s |-> [s1 EXCEPT !.dram[DramLine(s1.tag_array[row_i][way_i], row_i)] =
                                    s1.data_array[row_i][way_i],
                               !.dram_stalls = DRAM_DELAY + 1],
              stalls |-> acc.stalls + 1 + s1.dram_stalls]
        ELSE [s |-> s1, stalls |-> acc.stalls + 1]

\* The body of flush's loop for one (row_i, way_i), on the running pair
\* (object fields, stalls).
flush_line(acc, row_i, way_i) ==
    LET stalls == acc.stalls + 1
        s1 == [acc.s EXCEPT !.dram_stalls = Max(acc.s.dram_stalls - 1, 0)]
    IN  IF s1.valid_array[row_i][way_i] = 1 /\ s1.dirty_array[row_i][way_i] = 1
        THEN LET tag  == s1.tag_array[row_i][way_i]
                 data == s1.data_array[row_i][way_i]
             IN  [s |-> [s1 EXCEPT !.dirty_array[row_i][way_i] = 0,
                                   !.dram[DramLine(tag, row_i)] = data,
                                   !.dram_stalls = DRAM_DELAY + 1],
                  stalls |-> stalls + s1.dram_stalls]
        ELSE [s |-> s1, stalls |-> stalls]

\* Lines are visited row by row, and way by way within a row; k counts them.
RECURSIVE flush_loop(_, _)
flush_loop(acc, k) ==
    IF k >= num_rows * num_ways THEN acc
    ELSE flush_loop(flush_line(acc, k \div num_ways, k % num_ways), k + 1)

flush(s) ==
    LET start == [s |-> s, stalls |-> BoolInt(cfg.data_hazard /\ s.prev_set = 0)]
        done  == flush_loop(start, 0)
        stalls == done.stalls + 1
        s1 == [done.s EXCEPT !.dram_stalls = Max(done.s.dram_stalls - 1, 0)]
        s2 == update_random(s1, stalls)
    IN  Result([s2 EXCEPT !.prev_hit = FALSE, !.prev_web = 1, !.prev_set = None],
               stalls - 1, NoError)


(***************************************************************************)
(* globals.py: the options of a run.  read_config loads the configuration  *)
(* file into OPTS, fix_config fills in what it left out and report_status  *)
(* checks it before a cache is built.                                      *)
(***************************************************************************)
\* a policy the configuration file does not set (None in options.py)
NotGiven == "None"

\* debug.error(message, -1) ends the run with the message; "" is no error
NoMessage == ""

Options(total, word, data_cache, written, returned) ==
    [ total_size |-> total, word_size |-> word, is_data_cache |-> data_cache,
      write_policy |-> written, return_type |-> returned ]

\* fix_config: WritePolicy.get_default() is write-back
fix_config(o) ==
    [o EXCEPT !.write_policy = IF @ = NotGiven THEN "write-back" ELSE @]

\* A faulty report_status without the test of return_type
report_status_any_return(o) ==
    IF o.total_size % o.word_size # 0 THEN "Total size is not divisible by word size."
    ELSE IF ~o.is_data_cache THEN "Instruction cache is not yet supported."
    ELSE IF o.write_policy # "write-back"
    THEN "Only write-back policy is supported at the moment."
    ELSE NoMessage

\* report_status: the message of the first debug.error(..., -1) it reaches
report_status(o) ==
    IF o.total_size % o.word_size # 0 THEN "Total size is not divisible by word size."
    ELSE IF ~o.is_data_cache THEN "Instruction cache is not yet supported."
    ELSE IF o.write_policy # "write-back"
    THEN "Only write-back policy is supported at the moment."
    ELSE IF o.return_type # "word" THEN "Only returning word is supported at the moment."
    ELSE NoMessage

\* OPTS as read_config leaves it, as it is now, and the step of the start-up
\* reached: "read", "fixed", "reported"
Loaded(o) == [given |-> o, now |-> o, stage |-> "read", error |-> NoMessage]

\* OPTS in a run that is past its start-up
NoOptions == Loaded(Options(16, 8, TRUE, NotGiven, "word"))

(***************************************************************************)
(* The simulator driven call by call, as test_data.py drives it.           *)
(***************************************************************************)
SimPolicies == {<<"NONE", 1>>, <<"FIFO", 2>>, <<"LRU", 2>>, <<"LRU", 4>>, <<"RANDOM", 2>>}

\* the 4-way Random cache whose arrays are free of data hazards
Hazardless == Geometry("RANDOM", FALSE, 4, 2, 2, 2, 4, 2)

SimConfigs ==
    { Geometry(p[1], TRUE, p[2], 2, 2, 2, 4, 2) : p \in SimPolicies } \cup {Hazardless}

\* Addresses as test_data.generate_data builds them, merge_address(tag, set,
\* offset): every tag in set 0, a second word of one line, and a line of set 1.
Addrs ==
    { merge_address(t, 0, 0) : t \in 0 .. MaxTag }
        \cup { merge_address(0, 0, 1), merge_address(0, 1, 0) }

\* Write masks, most significant part first: every part, or the low part only
FullMask == [i \in 1 .. num_masks |-> 1]
PartMask == [i \in 1 .. num_masks |-> IF i = 1 THEN 0 ELSE 1]

\* The writes explored: a full mask to every address, a partial mask to the two
\* words of one line
Writes ==
    { <<a, FullMask>> : a \in Addrs }
        \cup { <<merge_address(0, 0, o), PartMask>> : o \in Words }

DramLines == 0 .. (2 ^ (tag_size + set_size)) - 1

\* reset_dram: one outcome of randrange(1 << word_size) per word, in which the
\* words of neighbouring lines differ and no word is one the requests write.
reset_dram(s) ==
    [s EXCEPT !.dram = [l \in DramLines |-> [w \in Words |->
                            (2 ^ (word_size - 1)) + ((words_per_line * l + w) % (2 ^ (word_size - 1)))]],
              !.dram_stalls = 0]

Blank ==
    [ valid_array |-> <<>>, dirty_array |-> <<>>, tag_array |-> <<>>, data_array |-> <<>>,
      prev_hit |-> FALSE, prev_web |-> 1, prev_set |-> None,
      fifo_array |-> <<>>, lru_array |-> <<>>, random |-> 0,
      dram |-> <<>>, dram_stalls |-> 0 ]

\* sim_cache.__init__: reset() and then reset_dram()
sim_cache == reset_dram(reset(Blank).s)

\* The data of the k-th call, if it is a write: randrange(1, 2 ** word_size),
\* drawn so that no two calls write the same word.
DataOf(k) == 1 + (k % ((2 ^ (word_size - 1)) - 1))

DramWord(d, address) ==
    LET p == parse_address(address) IN d[DramLine(p[1], p[2])][p[3]]

DirtyLines(s) == { <<r, w>> \in Rows \X Ways : s.dirty_array[r][w] = 1 }
ValidLines(s) == { <<r, w>> \in Rows \X Ways : s.valid_array[r][w] = 1 }

Call(op, address, mask, data, r) ==
    [ op |-> op, address |-> address, mask |-> mask, data |-> data,
      ret |-> r.ret, exc |-> r.exc,
      hit |-> IF address = None THEN FALSE ELSE find_way(sc, address) # None,
      queries |-> IF op = "stall_cycles" THEN last.queries + 1 ELSE 0,
      dirty_before |-> Cardinality(DirtyLines(sc)),
      valid_before |-> Cardinality(ValidLines(sc)) ]

NoCall ==
    [ op |-> "init", address |-> None, mask |-> <<>>, data |-> None,
      ret |-> None, exc |-> NoError, hit |-> FALSE, queries |-> 0,
      dirty_before |-> 0, valid_before |-> 0 ]

\* An address is held while its line stays in the cache after the call.
Held(h, s) == [a \in Addrs |-> IF find_way(s, a) = None THEN None ELSE h[a]]

(***************************************************************************)
(* The cache controllers.  A tick evaluates every always-block on the      *)
(* record c of the current registers, array outputs and inputs; a later    *)
(* assignment to a signal overrides an earlier one; the registers, the     *)
(* arrays and main memory then take their next values together.            *)
(*                                                                         *)
(* A tag line holds one entry (tag, dirty, valid) per way, a data line the *)
(* bytes of every way, a use line the FIFO pointer of the set or the rank  *)
(* of each of its ways.                                                    *)
(***************************************************************************)
RESET       == "RESET"
FLUSH       == "FLUSH"
IDLE        == "IDLE"
WAIT_HAZARD == "WAIT_HAZARD"
COMPARE     == "COMPARE"
WRITE       == "WRITE"
WAIT_WRITE  == "WAIT_WRITE"
READ        == "READ"
WAIT_READ   == "WAIT_READ"

policy == cfg.replacement_policy

\* bytes of a word, and of the line of one way
num_bytes  == word_size \div 8
line_bytes == num_bytes * words_per_line

\* assignment to a signal of `width` bits, and Const(value, width)
Trunc(v, width) == v % (2 ^ width)

\* Signal.bit_select(lo, width)
bit_select(v, lo, width) == (v \div (2 ^ lo)) % (2 ^ width)

\* Cat(lo, hi), lo being lo_width bits wide
Cat(lo, lo_width, hi) == lo + hi * (2 ^ lo_width)

\* the fields of addr as the direct-mapped cache decodes them
parse_tag(addr)    == bit_select(addr, offset_size + set_size, tag_size)
parse_set(addr)    == bit_select(addr, offset_size, set_size)
parse_offset(addr) == bit_select(addr, 0, offset_size)

\* addr[-tag_size:] and addr[:offset_size+1] assigned to the offset register
addr_tag(addr)    == bit_select(addr, address_size - tag_size, tag_size)
addr_offset(addr) == Trunc(bit_select(addr, 0, offset_size + 1), offset_size)

Not(b) == 1 - b

\* A faulty entry with the dirty and valid bits exchanged
TagEntrySwapped(t, d, v) == [valid |-> d, dirty |-> v, tag |-> t]

\* Cat(tag, dirty, valid)
TagEntry(t, d, v) == [valid |-> v, dirty |-> d, tag |-> t]

TagZero  == [w \in Ways |-> TagEntry(0, 0, 0)]
DataZero == [k \in 0 .. (num_ways * line_bytes) - 1 |-> 0]
LineZero == [k \in 0 .. line_bytes - 1 |-> 0]
UseZero  == IF policy = "LRU" THEN [w \in Ways |-> 0] ELSE 0

\* data.word_select(w, line_size), and the assignment to it
WayLine(data, w) == [k \in 0 .. line_bytes - 1 |-> data[w * line_bytes + k]]
SetWayLine(data, w, line) ==
    [k \in DOMAIN data |-> IF k \div line_bytes = w THEN line[k % line_bytes] ELSE data[k]]

\* assignment to data.word_select(k, 8); no byte is driven when k is out of range
SetByte(data, k, b) == IF k \in DOMAIN data THEN [data EXCEPT ![k] = b] ELSE data

\* data.word_select(k, word_size), from byte b on
RECURSIVE WordFrom(_, _, _)
WordFrom(data, k, b) ==
    IF b >= num_bytes THEN 0
    ELSE (IF k * num_bytes + b \in DOMAIN data THEN data[k * num_bytes + b] ELSE 0)
         + 256 * WordFrom(data, k, b + 1)

\* for j in range(num_bytes): with m.If(wmask_reg[j]): byte base + j of the
\* line takes byte j of din_reg
RECURSIVE write_mask(_, _, _, _, _)
write_mask(data, base, wmask_reg, din_reg, j) ==
    IF j >= num_bytes THEN data
    ELSE write_mask(IF bit_select(wmask_reg, j, 1) = 1
                    THEN SetByte(data, base + j, bit_select(din_reg, 8 * j, 8))
                    ELSE data,
                    base, wmask_reg, din_reg, j + 1)

\* for i in range(n): acc = F(acc, i)
RECURSIVE ForWays(_, _, _, _)
ForWays(F(_, _), acc, i, n) ==
    IF i >= n THEN acc ELSE ForWays(F, F(acc, i), i + 1, n)

\* The values every block reads in a tick with the inputs p
Ctx(p) ==
    [ state |-> ff.state, tag |-> ff.tag, set |-> ff.set, offset |-> ff.offset,
      web_reg |-> ff.web_reg, wmask_reg |-> ff.wmask_reg, din_reg |-> ff.din_reg,
      way |-> ff.way, bypass |-> ff.bypass,
      new_tag |-> ff.new_tag, new_data |-> ff.new_data, new_use |-> ff.new_use,
      tag_read_dout |-> sram.tag_read_dout, data_read_dout |-> sram.data_read_dout,
      use_read_dout |-> sram.use_read_dout,
      main_stall |-> IF main.busy > 0 THEN 1 ELSE 0, main_dout |-> main.dout,
      rst |-> p.rst, flush |-> p.flush, csb |-> p.csb, web |-> p.web,
      wmask |-> p.wmask, addr |-> p.addr, din |-> p.din ]

\* The signals of the memory controller block at their reset values
MemDefault ==
    [ tag_write_csb |-> 1, tag_write_addr |-> 0, tag_write_din |-> TagZero,
      data_write_csb |-> 1, data_write_addr |-> 0, data_write_din |-> DataZero,
      tag_read_addr |-> 0, data_read_addr |-> 0,
      main_csb |-> 1, main_web |-> 1, main_addr |-> 0, main_din |-> LineZero ]

TagWrite(x, a, din) ==
    [x EXCEPT !.tag_write_csb = 0, !.tag_write_addr = a, !.tag_write_din = din]

DataWrite(x, a, din) ==
    [x EXCEPT !.data_write_csb = 0, !.data_write_addr = a, !.data_write_din = din]

ReadAddr(x, a) == [x EXCEPT !.tag_read_addr = a, !.data_read_addr = a]

MainWrite(x, a, din) ==
    [x EXCEPT !.main_csb = 0, !.main_web = 0, !.main_addr = a, !.main_din = din]

MainRead(x, a) == [x EXCEPT !.main_csb = 0, !.main_addr = a]

\* The request registers: held, reset, and decoded from the inputs
RequestHold(c) ==
    [ tag |-> c.tag, set |-> c.set, offset |-> c.offset,
      web_reg |-> c.web_reg, wmask_reg |-> c.wmask_reg, din_reg |-> c.din_reg ]

RequestReset ==
    [ tag |-> 0, set |-> Trunc(1, set_size), offset |-> 0,
      web_reg |-> 1, wmask_reg |-> 0, din_reg |-> 0 ]

(***************************************************************************)
(* cache_base: the hit and miss tests of way 0.                            *)
(***************************************************************************)
check_dirty_miss(c) ==
    c.tag_read_dout[0].valid = 1 /\ c.tag_read_dout[0].dirty = 1

check_hit(c) ==
    c.tag_read_dout[0].valid = 1 /\ c.tag_read_dout[0].tag = c.tag

(***************************************************************************)
(* direct_cache                                                            *)
(***************************************************************************)
direct_state_compare(c) ==
    IF check_hit(c)
    THEN IF c.csb = 1 THEN IDLE
         ELSE IF c.web_reg = 0 /\ c.set = parse_set(c.addr) THEN WAIT_HAZARD
         ELSE COMPARE
    ELSE IF check_dirty_miss(c)
    THEN IF c.main_stall = 1 THEN WRITE ELSE WAIT_WRITE
    ELSE IF c.main_stall = 1 THEN READ ELSE WAIT_READ

\* A faulty test of the end of the RESET walk, one set late
reset_walk_late(set) == set = num_rows

\* with m.If(self.set == self.num_rows - 1)
\* A faulty end of the walk, one row too far
reset_walk_past(set) == set = num_rows

reset_walk_ends(set) == set = num_rows - 1

\* A faulty state table whose WAIT_HAZARD waits for main memory
direct_state_table_hazard_waits(c) ==
    CASE c.state = RESET ->
            IF reset_walk_ends(c.set) THEN IDLE ELSE c.state
      [] c.state = FLUSH ->
            IF (c.tag_read_dout[0].dirty = 0 \/ c.main_stall = 0) /\ c.set = num_rows - 1
            THEN IDLE ELSE c.state
      [] c.state = IDLE -> IF c.csb = 0 THEN COMPARE ELSE c.state
      [] c.state = WAIT_HAZARD -> IF c.main_stall = 0 THEN COMPARE ELSE c.state
      [] c.state = COMPARE -> direct_state_compare(c)
      [] c.state = WRITE -> IF c.main_stall = 0 THEN WAIT_WRITE ELSE c.state
      [] c.state = WAIT_WRITE -> IF c.main_stall = 0 THEN WAIT_READ ELSE c.state
      [] c.state = READ -> IF c.main_stall = 0 THEN WAIT_READ ELSE c.state
      [] c.state = WAIT_READ ->
            IF c.main_stall = 0
            THEN IF c.csb = 1 THEN IDLE
                 ELSE IF c.set = parse_set(c.addr) THEN WAIT_HAZARD
                 ELSE COMPARE
            ELSE c.state

direct_state_table(c) ==
    CASE c.state = RESET ->
            IF reset_walk_ends(c.set) THEN IDLE ELSE c.state
      [] c.state = FLUSH ->
            IF (c.tag_read_dout[0].dirty = 0 \/ c.main_stall = 0) /\ c.set = num_rows - 1
            THEN IDLE ELSE c.state
      [] c.state = IDLE -> IF c.csb = 0 THEN COMPARE ELSE c.state
      [] c.state = WAIT_HAZARD -> COMPARE
      [] c.state = COMPARE -> direct_state_compare(c)
      [] c.state = WRITE -> IF c.main_stall = 0 THEN WAIT_WRITE ELSE c.state
      [] c.state = WAIT_WRITE -> IF c.main_stall = 0 THEN WAIT_READ ELSE c.state
      [] c.state = READ -> IF c.main_stall = 0 THEN WAIT_READ ELSE c.state
      [] c.state = WAIT_READ ->
            IF c.main_stall = 0
            THEN IF c.csb = 1 THEN IDLE
                 ELSE IF c.set = parse_set(c.addr) THEN WAIT_HAZARD
                 ELSE COMPARE
            ELSE c.state

direct_state_block(c) ==
    IF c.rst = 1 THEN RESET
    ELSE IF c.flush = 1 THEN FLUSH
    ELSE direct_state_table(c)

direct_decode(c) ==
    [ tag |-> parse_tag(c.addr), set |-> parse_set(c.addr), offset |-> parse_offset(c.addr),
      web_reg |-> c.web, wmask_reg |-> c.wmask, din_reg |-> c.din ]

\* A faulty request block that decodes in COMPARE only if a request is pending
direct_request_pending(c) ==
    IF c.rst = 1 THEN RequestReset
    ELSE IF c.flush = 1 THEN [RequestHold(c) EXCEPT !.set = 0]
    ELSE CASE c.state = RESET ->
                [RequestHold(c) EXCEPT !.set = Trunc(c.set + 1, set_size)]
           [] c.state = FLUSH ->
                IF c.tag_read_dout[0].dirty = 0 \/ c.main_stall = 0
                THEN [RequestHold(c) EXCEPT !.set = Trunc(c.set + 1, set_size)]
                ELSE RequestHold(c)
           [] c.state = IDLE -> direct_decode(c)
           [] c.state = COMPARE ->
                IF check_hit(c) /\ c.csb = 0 THEN direct_decode(c) ELSE RequestHold(c)
           [] c.state = WAIT_READ ->
                IF c.main_stall = 0 THEN direct_decode(c) ELSE RequestHold(c)
           [] OTHER -> RequestHold(c)

\* A faulty request block that decodes the inputs in every state
direct_request_follow(c) ==
    IF c.rst = 1 THEN RequestReset
    ELSE IF c.flush = 1 THEN [RequestHold(c) EXCEPT !.set = 0]
    ELSE direct_decode(c)

direct_request_block(c) ==
    IF c.rst = 1 THEN RequestReset
    ELSE IF c.flush = 1 THEN [RequestHold(c) EXCEPT !.set = 0]
    ELSE CASE c.state = RESET ->
                [RequestHold(c) EXCEPT !.set = Trunc(c.set + 1, set_size)]
           [] c.state = FLUSH ->
                IF c.tag_read_dout[0].dirty = 0 \/ c.main_stall = 0
                THEN [RequestHold(c) EXCEPT !.set = Trunc(c.set + 1, set_size)]
                ELSE RequestHold(c)
           [] c.state = IDLE -> direct_decode(c)
           [] c.state = COMPARE -> IF check_hit(c) THEN direct_decode(c) ELSE RequestHold(c)
           [] c.state = WAIT_READ ->
                IF c.main_stall = 0 THEN direct_decode(c) ELSE RequestHold(c)
           [] OTHER -> RequestHold(c)

\* stall and dout at their reset values
OutDefault == [stall |-> 1, dout |-> 0]

\* an output block that lets the CPU go on in WAIT_READ before the fill
direct_output_block_early(c) ==
    CASE c.state \in {IDLE, WAIT_READ} -> [OutDefault EXCEPT !.stall = 0]
      [] c.state = COMPARE ->
            IF check_hit(c)
            THEN [stall |-> 0, dout |-> WordFrom(c.data_read_dout, c.offset, 0)]
            ELSE OutDefault
      [] OTHER -> OutDefault

direct_output_block(c) ==
    CASE c.state = IDLE -> [OutDefault EXCEPT !.stall = 0]
      [] c.state = COMPARE ->
            IF check_hit(c)
            THEN [stall |-> 0, dout |-> WordFrom(c.data_read_dout, c.offset, 0)]
            ELSE OutDefault
      [] c.state = WAIT_READ ->
            IF c.main_stall = 0
            THEN [stall |-> 0, dout |-> WordFrom(c.main_dout, c.offset, 0)]
            ELSE OutDefault
      [] OTHER -> OutDefault

\* FLUSH: read the next line if this one is clean or main memory is free,
\* write this line back if it is dirty and main memory is free
direct_memory_flush(c, x) ==
    IF c.tag_read_dout[0].dirty = 1 /\ c.main_stall = 0
    THEN MainWrite(TagWrite(x, c.set, [w \in Ways |-> TagEntry(c.tag_read_dout[0].tag, 0, 1)]),
                   Cat(c.set, set_size, c.tag_read_dout[0].tag), c.data_read_dout)
    ELSE x

\* A faulty miss that asks for the fill without writing the old line back
direct_memory_miss_no_write_back(c, x) ==
    IF c.main_stall = 0 THEN MainRead(x, Cat(c.set, set_size, c.tag)) ELSE x

\* COMPARE, the request taken for a miss
direct_memory_miss(c, x) ==
    IF check_dirty_miss(c)
    THEN IF c.main_stall = 1 THEN ReadAddr(x, c.set)
         ELSE MainWrite(x, Cat(c.set, set_size, c.tag_read_dout[0].tag), c.data_read_dout)
    ELSE IF c.main_stall = 0 THEN MainRead(x, Cat(c.set, set_size, c.tag))
    ELSE x

\* COMPARE, the write of a hit; byte(i, j) is byte i of word j
direct_memory_write(c, x) ==
    IF c.web_reg = 0
    THEN DataWrite(TagWrite(x, c.set, [w \in Ways |-> TagEntry(c.tag, 1, 1)]),
                   c.set,
                   write_mask(c.data_read_dout, c.offset * num_bytes, c.wmask_reg, c.din_reg, 0))
    ELSE x

\* COMPARE, the request found to hit after the assignments of the miss
direct_memory_hit(c, x) ==
    IF check_hit(c)
    THEN ReadAddr(direct_memory_write(c, [x EXCEPT !.main_csb = 1]), parse_set(c.addr))
    ELSE x

\* WAIT_READ once main memory has answered
direct_memory_fill(c, x) ==
    ReadAddr(DataWrite(TagWrite(x, c.set, [w \in Ways |-> TagEntry(c.tag, Not(c.web_reg), 1)]),
                       c.set,
                       IF c.web_reg = 0
                       THEN write_mask(c.main_dout, c.offset * num_bytes,
                                       c.wmask_reg, c.din_reg, 0)
                       ELSE c.main_dout),
             parse_set(c.addr))

direct_memory_block(c) ==
    IF c.rst = 1 THEN TagWrite(MemDefault, 0, TagZero)
    ELSE IF c.flush = 1 THEN ReadAddr(MemDefault, 0)
    ELSE CASE c.state = RESET -> TagWrite(MemDefault, c.set, TagZero)
           [] c.state = FLUSH ->
                direct_memory_flush(c,
                    ReadAddr(MemDefault,
                             IF c.tag_read_dout[0].dirty = 0 \/ c.main_stall = 0
                             THEN Trunc(c.set + 1, set_size) ELSE c.set))
           [] c.state = IDLE -> ReadAddr(MemDefault, parse_set(c.addr))
           [] c.state = WAIT_HAZARD -> ReadAddr(MemDefault, c.set)
           [] c.state = COMPARE -> direct_memory_hit(c, direct_memory_miss(c, MemDefault))
           [] c.state = WRITE ->
                IF c.main_stall = 0
                THEN MainWrite(ReadAddr(MemDefault, c.set),
                               Cat(c.set, set_size, c.tag_read_dout[0].tag), c.data_read_dout)
                ELSE ReadAddr(MemDefault, c.set)
           [] c.state = WAIT_WRITE ->
                IF c.main_stall = 0 THEN MainRead(MemDefault, Cat(c.set, set_size, c.tag))
                ELSE MemDefault
           [] c.state = READ ->
                IF c.main_stall = 0 THEN MainRead(MemDefault, Cat(c.set, set_size, c.tag))
                ELSE MemDefault
           [] c.state = WAIT_READ ->
                IF c.main_stall = 0 THEN direct_memory_fill(c, MemDefault) ELSE MemDefault
           [] OTHER -> MemDefault

(***************************************************************************)
(* n_way_fifo_cache and n_way_lru_cache.  The two classes share the text   *)
(* of the request and output blocks and, but for the choice of the victim  *)
(* in COMPARE, of the state and memory controller blocks.                  *)
(***************************************************************************)
\* A faulty choice of the data line that never takes the bypass registers
data_line_array(c) == c.data_read_dout

\* A faulty choice of the tag line that never takes the bypass registers
tag_line_array(c) == c.tag_read_dout

\* the line and the use word a block compares: the bypass registers if
\* bypass is high, the array outputs otherwise
tag_line(c)  == IF c.bypass = 1 THEN c.new_tag ELSE c.tag_read_dout
data_line(c) == IF c.bypass = 1 THEN c.new_data ELSE c.data_read_dout
use_line(c)  == IF c.bypass = 1 THEN c.new_use ELSE c.use_read_dout

\* way i is valid and holds the tag of the request
way_hit(c, i) == tag_line(c)[i].valid = 1 /\ tag_line(c)[i].tag = c.tag

\* bit_select(i * (tag_size + 2) + tag_size, 2) == Const(3, 2)
way_dirty(c, i) == tag_line(c)[i].dirty = 1 /\ tag_line(c)[i].valid = 1

\* LRU: way i has use number 0
lru_victim(c, i) == use_line(c)[i] = 0

\* with m.If(self.rst): state_next.eq(State.RESET), over state_next.eq(state)
state_rst(c) == IF c.rst = 1 THEN RESET ELSE c.state

\* COMPARE, the request taken for a miss of the way the FIFO number points to
fifo_state_miss(c) ==
    IF way_dirty(c, use_line(c))
    THEN IF c.main_stall = 1 THEN WRITE ELSE WAIT_WRITE
    ELSE IF c.main_stall = 1 THEN READ ELSE WAIT_READ

\* COMPARE, the same for every way with use number 0, in order
lru_state_miss(c, s, i) ==
    IF lru_victim(c, i)
    THEN IF way_dirty(c, i)
         THEN IF c.main_stall = 1 THEN WRITE ELSE WAIT_WRITE
         ELSE IF c.main_stall = 1 THEN READ ELSE WAIT_READ
    ELSE s

\* the state table; hold is state_next before it, missed what COMPARE
\* assigned while it took the request for a miss
nway_state_table(c, hold, missed) ==
    CASE c.state = RESET -> IF reset_walk_ends(c.set) THEN IDLE ELSE hold
      [] c.state = FLUSH ->
            IF c.main_stall = 0 /\ c.way = num_ways - 1 /\ c.set = num_rows - 1
            THEN IDLE ELSE hold
      [] c.state = IDLE -> IF c.csb = 0 THEN COMPARE ELSE hold
      [] c.state = COMPARE ->
            IF \E i \in Ways : way_hit(c, i)
            THEN IF c.csb = 1 THEN IDLE ELSE COMPARE
            ELSE missed
      [] c.state = WRITE -> IF c.main_stall = 0 THEN WAIT_WRITE ELSE hold
      [] c.state = WAIT_WRITE -> IF c.main_stall = 0 THEN WAIT_READ ELSE hold
      [] c.state = READ -> IF c.main_stall = 0 THEN WAIT_READ ELSE hold
      [] c.state = WAIT_READ ->
            IF c.main_stall = 0 THEN (IF c.csb = 1 THEN IDLE ELSE COMPARE) ELSE hold
      [] OTHER -> hold

\* with m.If(rst) ... with m.If(flush) ... with m.Else(): the state table
\* is the else of the test of flush alone
fifo_state_block(c) ==
    IF c.flush = 1 THEN FLUSH
    ELSE nway_state_table(c, state_rst(c), fifo_state_miss(c))

lru_state_block(c) ==
    IF c.flush = 1 THEN FLUSH
    ELSE nway_state_table(c, state_rst(c),
                          ForWays(LAMBDA s, i : lru_state_miss(c, s, i),
                                  state_rst(c), 0, num_ways))

nway_decode(c) ==
    [ tag |-> addr_tag(c.addr), set |-> bit_select(c.addr, offset_size, set_size),
      offset |-> addr_offset(c.addr),
      web_reg |-> c.web, wmask_reg |-> c.wmask, din_reg |-> c.din ]

nway_request_block(c) ==
    IF c.rst = 1 THEN RequestReset
    ELSE IF c.flush = 1 THEN [RequestHold(c) EXCEPT !.set = 0]
    ELSE CASE c.state = RESET ->
                [RequestHold(c) EXCEPT !.set = Trunc(c.set + 1, set_size)]
           [] c.state = FLUSH ->
                IF c.main_stall = 0 /\ c.way = num_ways - 1
                THEN [RequestHold(c) EXCEPT !.set = Trunc(c.set + 1, set_size)]
                ELSE RequestHold(c)
           [] c.state = IDLE -> nway_decode(c)
           [] c.state = COMPARE ->
                IF \E i \in Ways : way_hit(c, i) THEN nway_decode(c) ELSE RequestHold(c)
           [] c.state = WAIT_READ ->
                IF c.main_stall = 0 THEN nway_decode(c) ELSE RequestHold(c)
           [] OTHER -> RequestHold(c)

\* COMPARE, way i in the loop over the ways
nway_output_hit(c, o, i) ==
    IF way_hit(c, i)
    THEN [stall |-> 0, dout |-> WordFrom(data_line(c), i * words_per_line + c.offset, 0)]
    ELSE o

nway_output_block(c) ==
    CASE c.state = IDLE -> [OutDefault EXCEPT !.stall = 0]
      [] c.state = COMPARE ->
            ForWays(LAMBDA o, i : nway_output_hit(c, o, i), OutDefault, 0, num_ways)
      [] c.state = WAIT_READ ->
            IF c.main_stall = 0
            THEN [stall |-> 0, dout |-> WordFrom(c.main_dout, c.offset, 0)]
            ELSE OutDefault
      [] OTHER -> OutDefault

\* i * num_bytes_per_line + offset * num_bytes_per_word, the two factors
\* being Const(value, width) in the memory controller block
mem_byte_base(c, i) ==
    i * Trunc(num_bytes * words_per_line, Log2(num_ways * words_per_line))
        + c.offset * Trunc(num_bytes, Log2(words_per_line))

\* the same with Const(value) in the bypass block
bypass_byte_base(c, i) == i * (num_bytes * words_per_line) + c.offset * num_bytes

\* COMPARE, the request taken for a miss of the way the FIFO number points to
fifo_memory_miss(c, x) ==
    IF way_dirty(c, use_line(c))
    THEN IF c.main_stall = 1 THEN ReadAddr(x, c.set)
         ELSE MainWrite(x, Cat(c.set, set_size, tag_line(c)[use_line(c)].tag),
                        WayLine(data_line(c), use_line(c)))
    ELSE IF c.main_stall = 0
    THEN MainRead(ReadAddr(x, c.set), Cat(c.set, set_size, c.tag))
    ELSE x

\* COMPARE, the same for way i if its use number is 0
lru_memory_miss(c, x, i) ==
    IF lru_victim(c, i)
    THEN IF way_dirty(c, i)
         THEN IF c.main_stall = 1 THEN ReadAddr(x, c.set)
              ELSE MainWrite(x, Cat(c.set, set_size, tag_line(c)[i].tag),
                             WayLine(data_line(c), i))
         ELSE IF c.main_stall = 0
         THEN MainRead(ReadAddr(x, c.set), Cat(c.set, set_size, c.tag))
         ELSE x
    ELSE x

\* the read of the lines of the next request
nway_memory_next(c, x) ==
    IF c.csb = 0 THEN ReadAddr(x, bit_select(c.addr, offset_size, set_size)) ELSE x

\* COMPARE, the write of a hit in way i
nway_memory_write(c, x, i) ==
    IF c.web_reg = 0
    THEN DataWrite(TagWrite(x, c.set, [tag_line(c) EXCEPT ![i].dirty = 1]),
                   c.set,
                   write_mask(data_line(c), mem_byte_base(c, i), c.wmask_reg, c.din_reg, 0))
    ELSE x

\* COMPARE, way i in the loop over the ways
nway_memory_hit(c, x, i) ==
    IF way_hit(c, i)
    THEN nway_memory_next(c, nway_memory_write(c, [x EXCEPT !.main_csb = 1], i))
    ELSE x

\* WAIT_READ once main memory has answered
nway_memory_fill(c, x) ==
    nway_memory_next(c,
        DataWrite(TagWrite(x, c.set,
                           [c.tag_read_dout EXCEPT ![c.way] = TagEntry(c.tag, Not(c.web_reg), 1)]),
                  c.set,
                  IF c.web_reg = 0
                  THEN write_mask(SetWayLine(c.data_read_dout, c.way, c.main_dout),
                                  mem_byte_base(c, c.way), c.wmask_reg, c.din_reg, 0)
                  ELSE SetWayLine(c.data_read_dout, c.way, c.main_dout)))

\* FLUSH: the line of the way register is sent to main memory
nway_memory_flush(c, x) ==
    MainWrite(ReadAddr(x, IF c.main_stall = 0 /\ c.way = num_ways - 1
                          THEN Trunc(c.set + 1, set_size) ELSE c.set),
              Cat(c.set, set_size, c.tag_read_dout[c.way].tag),
              WayLine(c.data_read_dout, c.way))

\* missed is the record of signals after COMPARE took the request for a miss
nway_memory_controller_block(c, missed) ==
    IF c.rst = 1 THEN TagWrite(MemDefault, 0, TagZero)
    ELSE IF c.flush = 1 THEN ReadAddr(MemDefault, 0)
    ELSE CASE c.state = RESET -> TagWrite(MemDefault, c.set, TagZero)
           [] c.state = FLUSH -> nway_memory_flush(c, MemDefault)
           [] c.state = IDLE -> nway_memory_next(c, MemDefault)
           [] c.state = COMPARE ->
                ForWays(LAMBDA x, i : nway_memory_hit(c, x, i), missed, 0, num_ways)
           [] c.state = WRITE ->
                IF c.main_stall = 0
                THEN MainWrite(ReadAddr(MemDefault, c.set),
                               Cat(c.set, set_size, c.tag_read_dout[c.way].tag),
                               WayLine(c.data_read_dout, c.way))
                ELSE ReadAddr(MemDefault, c.set)
           [] c.state = WAIT_WRITE ->
                IF c.main_stall = 0
                THEN MainRead(ReadAddr(MemDefault, c.set), Cat(c.set, set_size, c.tag))
                ELSE ReadAddr(MemDefault, c.set)
           [] c.state = READ ->
                IF c.main_stall = 0
                THEN MainRead(ReadAddr(MemDefault, c.set), Cat(c.set, set_size, c.tag))
                ELSE ReadAddr(MemDefault, c.set)
           [] c.state = WAIT_READ ->
                IF c.main_stall = 0 THEN nway_memory_fill(c, ReadAddr(MemDefault, c.set))
                ELSE ReadAddr(MemDefault, c.set)
           [] OTHER -> MemDefault

fifo_memory_controller_block(c) ==
    nway_memory_controller_block(c, fifo_memory_miss(c, MemDefault))

lru_memory_controller_block(c) ==
    nway_memory_controller_block(c,
        ForWays(LAMBDA x, i : lru_memory_miss(c, x, i), MemDefault, 0, num_ways))

\* The signals of the replacement block: way_next holds the way register
ReplDefault(way) ==
    [ way |-> way, use_write_csb |-> 1, use_write_addr |-> 0, use_write_din |-> UseZero,
      use_read_addr |-> 0 ]

UseWrite(y, a, din) ==
    [y EXCEPT !.use_write_csb = 0, !.use_write_addr = a, !.use_write_din = din]

\* the read of the use line of the next request
repl_next(c, y) ==
    IF c.csb = 0
    THEN [y EXCEPT !.use_read_addr = bit_select(c.addr, offset_size, set_size)]
    ELSE y

\* A faulty FIFO number that is not cut to the width of the use word
fifo_next_wide(way) == way + 1

\* use_write_din.eq(self.way + 1): the sum is cut to the way_size bits of the word
fifo_next(way) == Trunc(way + 1, way_size)

fifo_replacement_block(c) ==
    IF c.rst = 1 THEN UseWrite([ReplDefault(c.way) EXCEPT !.way = 0], 0, UseZero)
    ELSE IF c.flush = 1 THEN [ReplDefault(c.way) EXCEPT !.way = 0]
    ELSE CASE c.state = RESET -> UseWrite(ReplDefault(c.way), c.set, UseZero)
           [] c.state = FLUSH ->
                IF c.main_stall = 0
                THEN [ReplDefault(c.way) EXCEPT !.way = Trunc(c.way + 1, way_size)]
                ELSE ReplDefault(c.way)
           [] c.state = IDLE ->
                IF c.csb = 0 THEN repl_next(c, [ReplDefault(c.way) EXCEPT !.way = 0])
                ELSE ReplDefault(c.way)
           [] c.state = COMPARE ->
                IF \E i \in Ways : way_hit(c, i)
                THEN repl_next(c, [ReplDefault(c.way) EXCEPT !.way = use_line(c)])
                ELSE [ReplDefault(c.way) EXCEPT !.way = use_line(c)]
           [] c.state = WAIT_READ ->
                IF c.main_stall = 0
                THEN repl_next(c, UseWrite(ReplDefault(c.way), c.set, fifo_next(c.way)))
                ELSE ReplDefault(c.way)
           [] OTHER -> ReplDefault(c.way)

\* the use numbers after way i is accessed: every number above that of way i
\* goes down by one, and way i takes num_ways - 1
lru_promote(use, i) ==
    [j \in Ways |->
        IF j = i THEN num_ways - 1
        ELSE Trunc(use[j] - (IF use[j] > use[i] THEN 1 ELSE 0), way_size)]

\* COMPARE, way i in the loop that looks for the way with use number 0
lru_replacement_miss(c, y, i) ==
    IF lru_victim(c, i)
    THEN IF way_dirty(c, i)
         THEN [y EXCEPT !.way = i, !.use_read_addr = c.set]
         ELSE [y EXCEPT !.way = i]
    ELSE y

\* COMPARE, way i in the loop that looks for a hit: the use line is written
\* from the array output if bypass is high and from new_use otherwise
lru_replacement_hit(c, y, i) ==
    IF way_hit(c, i)
    THEN repl_next(c, UseWrite(y, c.set,
                               IF c.bypass = 1 THEN lru_promote(c.use_read_dout, i)
                               ELSE lru_promote(c.new_use, i)))
    ELSE y

lru_replacement_block(c) ==
    IF c.rst = 1 THEN UseWrite([ReplDefault(c.way) EXCEPT !.way = 0], 0, UseZero)
    ELSE IF c.flush = 1 THEN [ReplDefault(c.way) EXCEPT !.way = 0]
    ELSE CASE c.state = RESET -> UseWrite(ReplDefault(c.way), c.set, UseZero)
           [] c.state = FLUSH ->
                IF c.main_stall = 0
                THEN [ReplDefault(c.way) EXCEPT !.way = Trunc(c.way + 1, way_size)]
                ELSE ReplDefault(c.way)
           [] c.state = IDLE ->
                IF c.csb = 0 THEN repl_next(c, [ReplDefault(c.way) EXCEPT !.way = 0])
                ELSE ReplDefault(c.way)
           [] c.state = COMPARE ->
                ForWays(LAMBDA y, i : lru_replacement_hit(c, y, i),
                        ForWays(LAMBDA y, i : lru_replacement_miss(c, y, i),
                                ReplDefault(c.way), 0, num_ways),
                        0, num_ways)
           [] c.state \in {WAIT_WRITE, READ} ->
                [ReplDefault(c.way) EXCEPT !.use_read_addr = c.set]
           [] c.state = WAIT_READ ->
                IF c.main_stall = 0
                THEN repl_next(c, UseWrite([ReplDefault(c.way) EXCEPT !.use_read_addr = c.set],
                                           c.set, lru_promote(c.new_use, c.way)))
                ELSE [ReplDefault(c.way) EXCEPT !.use_read_addr = c.set]
           [] OTHER -> ReplDefault(c.way)

\* The bypass registers are cleared unless a block arms them
BypassDefault == [bypass |-> 0, new_tag |-> TagZero, new_data |-> DataZero, new_use |-> UseZero]

\* COMPARE, way i in the loop over the ways: a write hit followed by a
\* request to the same set
fifo_bypass_hit(c, z, i) ==
    IF way_hit(c, i)
    THEN [ bypass   |-> 1,
           new_tag  |-> [tag_line(c) EXCEPT ![i] = TagEntry(c.tag, 1, 1)],
           new_data |-> write_mask(data_line(c), bypass_byte_base(c, i),
                                   c.wmask_reg, c.din_reg, 0),
           new_use  |-> use_line(c) ]
    ELSE z

\* WAIT_READ: the line being written and the use number after it
fifo_bypass_fill(c) ==
    [ bypass   |-> 1,
      new_tag  |-> [c.tag_read_dout EXCEPT ![c.way] = TagEntry(c.tag, Not(c.web_reg), 1)],
      new_data |-> IF c.web_reg = 0
                   THEN write_mask(SetWayLine(c.data_read_dout, c.way, c.main_dout),
                                   bypass_byte_base(c, c.way), c.wmask_reg, c.din_reg, 0)
                   ELSE SetWayLine(c.data_read_dout, c.way, c.main_dout),
      new_use  |-> Trunc(c.way + 1, way_size) ]

fifo_bypass_block(c) ==
    CASE c.state = COMPARE ->
            IF c.csb = 0 /\ c.web_reg = 0 /\ c.set = bit_select(c.addr, offset_size, set_size)
            THEN ForWays(LAMBDA z, i : fifo_bypass_hit(c, z, i), BypassDefault, 0, num_ways)
            ELSE BypassDefault
      [] c.state = WAIT_READ ->
            IF c.main_stall = 0 /\ c.csb = 0
                /\ c.set = bit_select(c.addr, offset_size, set_size)
            THEN fifo_bypass_fill(c)
            ELSE BypassDefault
      [] OTHER -> BypassDefault

\* COMPARE, way i in the loop over the ways: a hit followed by a request to
\* the same set; the entry of the way is written as Cat(tag, Const(3, 2))
lru_bypass_hit(c, z, i) ==
    IF way_hit(c, i)
    THEN [ bypass   |-> 1,
           new_tag  |-> [tag_line(c) EXCEPT ![i] = TagEntry(c.tag, 1, 1)],
           new_data |-> write_mask(data_line(c), bypass_byte_base(c, i),
                                   c.wmask_reg, c.din_reg, 0),
           new_use  |-> lru_promote(use_line(c), i) ]
    ELSE z

lru_bypass_fill(c) ==
    [ bypass   |-> 1,
      new_tag  |-> [c.tag_read_dout EXCEPT ![c.way] = TagEntry(c.tag, Not(c.web_reg), 1)],
      new_data |-> IF c.web_reg = 0
                   THEN write_mask(SetWayLine(c.data_read_dout, c.way, c.main_dout),
                                   bypass_byte_base(c, c.way), c.wmask_reg, c.din_reg, 0)
                   ELSE SetWayLine(c.data_read_dout, c.way, c.main_dout),
      new_use  |-> lru_promote(c.use_read_dout, c.way) ]

lru_bypass_block(c) ==
    CASE c.state = COMPARE ->
            IF c.csb = 0 /\ c.set = bit_select(c.addr, offset_size, set_size)
            THEN ForWays(LAMBDA z, i : lru_bypass_hit(c, z, i), BypassDefault, 0, num_ways)
            ELSE BypassDefault
      [] c.state = WAIT_READ ->
            IF c.main_stall = 0 /\ c.csb = 0
                /\ c.set = bit_select(c.addr, offset_size, set_size)
            THEN lru_bypass_fill(c)
            ELSE BypassDefault
      [] OTHER -> BypassDefault

(***************************************************************************)
(* The design of the configured policy, and one clock tick of it.          *)
(***************************************************************************)
\* stall and dout
Output(c) ==
    IF policy \in {"FIFO", "LRU"} THEN nway_output_block(c) ELSE direct_output_block(c)

\* every signal the blocks drive in a tick, with the state and main_stall
\* they were evaluated in
Blocks(c) ==
    [ state      |-> c.state,
      main_stall |-> c.main_stall,
      st  |-> CASE policy = "FIFO" -> fifo_state_block(c)
                [] policy = "LRU"  -> lru_state_block(c)
                [] OTHER           -> direct_state_block(c),
      rq  |-> IF policy \in {"FIFO", "LRU"} THEN nway_request_block(c)
              ELSE direct_request_block(c),
      out |-> Output(c),
      mem |-> CASE policy = "FIFO" -> fifo_memory_controller_block(c)
                [] policy = "LRU"  -> lru_memory_controller_block(c)
                [] OTHER           -> direct_memory_block(c),
      rp  |-> CASE policy = "FIFO" -> fifo_replacement_block(c)
                [] policy = "LRU"  -> lru_replacement_block(c)
                [] OTHER           -> ReplDefault(c.way),
      bp  |-> CASE policy = "FIFO" -> fifo_bypass_block(c)
                [] policy = "LRU"  -> lru_bypass_block(c)
                [] OTHER           -> BypassDefault ]

\* The flip-flops at the clock edge
NextFF(b) ==
    [ state |-> b.st,
      tag |-> b.rq.tag, set |-> b.rq.set, offset |-> b.rq.offset,
      web_reg |-> b.rq.web_reg, wmask_reg |-> b.rq.wmask_reg, din_reg |-> b.rq.din_reg,
      way |-> b.rp.way,
      bypass |-> b.bp.bypass, new_tag |-> b.bp.new_tag, new_data |-> b.bp.new_data,
      new_use |-> b.bp.new_use ]

\* The write port of an array: the line at addr takes din if csb is low
WritePort(array, csb, a, din) == IF csb = 0 THEN [array EXCEPT ![a] = din] ELSE array

\* The read port of an array whose write port is driven with (csb, a, din) in
\* the same cycle: a read of the line being written returns the line as it was
\* before the write unless the arrays are free of data hazards
ReadPort(array, read_addr, csb, a, din) ==
    IF cfg.data_hazard THEN array[read_addr] ELSE WritePort(array, csb, a, din)[read_addr]

\* The arrays at the clock edge
NextSram(b) ==
    [ tag_array  |-> WritePort(sram.tag_array, b.mem.tag_write_csb,
                               b.mem.tag_write_addr, b.mem.tag_write_din),
      data_array |-> WritePort(sram.data_array, b.mem.data_write_csb,
                               b.mem.data_write_addr, b.mem.data_write_din),
      use_array  |-> WritePort(sram.use_array, b.rp.use_write_csb,
                               b.rp.use_write_addr, b.rp.use_write_din),
      tag_read_dout  |-> ReadPort(sram.tag_array, b.mem.tag_read_addr, b.mem.tag_write_csb,
                                  b.mem.tag_write_addr, b.mem.tag_write_din),
      data_read_dout |-> ReadPort(sram.data_array, b.mem.data_read_addr, b.mem.data_write_csb,
                                  b.mem.data_write_addr, b.mem.data_write_din),
      use_read_dout  |-> ReadPort(sram.use_array, b.rp.use_read_addr, b.rp.use_write_csb,
                                  b.rp.use_write_addr, b.rp.use_write_din) ]

\* Main memory at the clock edge: a request is taken when main_csb is low and
\* main memory is not busy, and keeps it busy for its delay, DRAM_DELAY cycles
\* in the test bench
NextMain(b) ==
    IF b.mem.main_csb = 0 /\ main.busy = 0
    THEN [ mem  |-> IF b.mem.main_web = 0
                    THEN [main.mem EXCEPT ![b.mem.main_addr] = b.mem.main_din]
                    ELSE main.mem,
           dout |-> IF b.mem.main_web = 1 THEN main.mem[b.mem.main_addr] ELSE main.dout,
           busy |-> main.delay, delay |-> main.delay ]
    ELSE [main EXCEPT !.busy = Max(main.busy - 1, 0)]

Latch(b, p) ==
    /\ ff' = NextFF(b)
    /\ sram' = NextSram(b)
    /\ main' = NextMain(b)
    /\ sig' = b
    /\ pins' = p

Tick(p) == Latch(Blocks(Ctx(p)), p)

\* Registers and array outputs at power-up; state 0 is RESET
PowerUp ==
    [ state |-> RESET, tag |-> 0, set |-> 0, offset |-> 0,
      web_reg |-> 0, wmask_reg |-> 0, din_reg |-> 0, way |-> 0,
      bypass |-> 0, new_tag |-> TagZero, new_data |-> DataZero, new_use |-> UseZero ]

\* The arrays hold arbitrary lines at power-up: every entry (tag, dirty,
\* valid) is (g, g, g) for g in 0..1
SramOf(g) ==
    [ tag_array  |-> [r \in Rows |-> [w \in Ways |-> TagEntry(g, g, g)]],
      data_array |-> [r \in Rows |-> DataZero],
      use_array  |-> [r \in Rows |-> UseZero],
      tag_read_dout |-> TagZero, data_read_dout |-> DataZero, use_read_dout |-> UseZero ]

\* byte k of a line of the simulator's DRAM
LineOfWords(words) ==
    [k \in 0 .. line_bytes - 1 |->
        bit_select(words[k \div num_bytes], 8 * (k % num_bytes), 8)]

\* Main memory holds what reset_dram put in the simulator's DRAM
MainOf(d) ==
    [ mem |-> [l \in DramLines |-> LineOfWords(d[l])], dout |-> LineZero, busy |-> 0,
      delay |-> DRAM_DELAY ]

NoPins == [rst |-> 0, flush |-> 0, csb |-> 1, web |-> 1, wmask |-> 0, addr |-> 0, din |-> 0]

\* The signals of a cycle in which no block drives anything
Quiet ==
    [ state |-> RESET, main_stall |-> 0, st |-> RESET, rq |-> RequestHold(PowerUp),
      out |-> OutDefault, mem |-> MemDefault, rp |-> ReplDefault(0), bp |-> BypassDefault ]

(***************************************************************************)
(* The test bench around the design: what it has measured so far.          *)
(***************************************************************************)
\* the record of a request that has completed
NoDone ==
    [ valid |-> FALSE, predicted |-> 0, measured |-> 0, web |-> 1, addr |-> 0,
      dout |-> 0, expected |-> 0 ]

\* phase: before rst, running, ended; ticks: clock ticks so far; count: cycles
\* of stall seen for the request in flight; walk: ticks since a tick with rst
\* high, flush low and no request, None once rst, flush or a request followed;
\* entered: the state register was RESET after that tick; flushes: ticks with
\* flush high so far
TbInit ==
    [ phase |-> "power", ticks |-> 0, count |-> 0, inflight |-> FALSE,
      predicted |-> 0, web |-> 1, addr |-> 0, expected |-> 0, done |-> NoDone,
      walk |-> None, entered |-> FALSE, flushes |-> 0 ]

\* The design at power-up, with array contents g and main memory holding d
PowerOn(g, d) ==
    /\ ff = PowerUp
    /\ sram = SramOf(g)
    /\ main = MainOf(d)
    /\ pins = NoPins
    /\ sig = Quiet
    /\ tb = TbInit

InitSim ==
    /\ cfg \in SimConfigs
    /\ sc = sim_cache
    /\ dram0 = sim_cache.dram
    /\ last = NoCall
    /\ expect = [a \in Addrs |-> DramWord(dram0, a)]
    /\ held = [a \in Addrs |-> None]
    /\ ops = 0
    /\ trail = <<>>
    /\ opts = NoOptions
    /\ PowerOn(0, sim_cache.dram)

Running == ops < MaxOps /\ last.exc = NoError

SimReset ==
    /\ Running
    /\ LET r == reset(sc)
       IN  /\ sc' = r.s
           /\ last' = Call("reset", None, <<>>, None, r)
           /\ held' = [a \in Addrs |-> None]
           \* reset drops dirty lines without writing them back
           /\ expect' = [a \in Addrs |->
                            IF expect[a] = DramWord(dram0, a) THEN expect[a] ELSE None]
    /\ ops' = ops + 1
    /\ UNCHANGED <<cfg, dram0>>
    /\ UNCHANGED <<ctrlVars, trail, opts>>

SimFlush ==
    /\ Running
    /\ LET r == flush(sc)
       IN  /\ sc' = r.s
           /\ last' = Call("flush", None, <<>>, None, r)
    /\ ops' = ops + 1
    /\ UNCHANGED <<cfg, dram0, expect, held>>
    /\ UNCHANGED <<ctrlVars, trail, opts>>

\* the object, the record of the call and the held data after a call returned r
Returned(op, address, mask, data, r, h) ==
    /\ sc' = r.s
    /\ last' = Call(op, address, mask, data, r)
    /\ held' = Held(h, r.s)

SimRead ==
    /\ Running
    /\ \E address \in Addrs :
          Returned("read", address, <<>>, None, read(sc, address), held)
    /\ ops' = ops + 1
    /\ UNCHANGED <<cfg, dram0, expect>>
    /\ UNCHANGED <<ctrlVars, trail, opts>>

SimWrite ==
    /\ Running
    /\ \E w \in Writes :
          /\ Returned("write", w[1], w[2], DataOf(ops), write(sc, w[1], w[2], DataOf(ops)),
                      [held EXCEPT ![w[1]] = IF w[2] = FullMask THEN DataOf(ops) ELSE None])
          /\ expect' = [expect EXCEPT ![w[1]] =
                            IF w[2] = FullMask THEN DataOf(ops) ELSE None]
    /\ ops' = ops + 1
    /\ UNCHANGED <<cfg, dram0>>
    /\ UNCHANGED <<ctrlVars, trail, opts>>

\* stall_cycles is asked before a request, as test_data.generate_data does,
\* and possibly asked again
SimStall ==
    /\ Running
    /\ last.queries < MaxQueries
    /\ \E address \in Addrs :
          /\ sc' = stall_cycles(sc, address).s
          /\ last' = Call("stall_cycles", address, <<>>, None, stall_cycles(sc, address))
    /\ UNCHANGED <<cfg, dram0, expect, held, ops>>
    /\ UNCHANGED <<ctrlVars, trail, opts>>

NextSim == SimReset \/ SimFlush \/ SimRead \/ SimWrite \/ SimStall

SpecSim == InitSim /\ [][NextSim]_vars

(***************************************************************************)
(* The design and the simulator side by side, as verify.simulate runs the  *)
(* vectors of test_data.py: rst for one cycle, then the requests back to   *)
(* back, each applied in the cycle in which stall is low.                  *)
(***************************************************************************)
\* requests of one behaviour
MaxReqs == 3

BenchDesigns ==
    {<<"NONE", TRUE, 1>>, <<"NONE", FALSE, 1>>, <<"FIFO", TRUE, 2>>, <<"LRU", TRUE, 2>>}

BenchConfigs ==
    { Geometry(p[1], p[2], p[3], 2, 2, 2, 8, 8) : p \in BenchDesigns }

InitBench ==
    /\ cfg \in BenchConfigs
    /\ sc = sim_cache
    /\ dram0 = sim_cache.dram
    /\ last = NoCall
    /\ expect = [a \in Addrs |-> DramWord(dram0, a)]
    /\ held = [a \in Addrs |-> None]
    /\ ops = 0
    /\ trail = <<>>
    /\ opts = NoOptions
    /\ \E g \in 0 .. 1 : PowerOn(g, sim_cache.dram)

\* stall and dout as the design drives them in the current cycle
Driven == Output(Ctx(pins))

\* cache_csb = 0 with the fields of a request
Request(web, wmask, addr, din) ==
    [rst |-> 0, flush |-> 0, csb |-> 0, web |-> web, wmask |-> wmask, addr |-> addr, din |-> din]

\* the request in flight, if any, ends in this cycle with the outputs o
Finished(o) ==
    IF tb.inflight
    THEN [ valid |-> TRUE, predicted |-> tb.predicted, measured |-> tb.count,
           web |-> tb.web, addr |-> tb.addr, dout |-> o.dout, expected |-> tb.expected ]
    ELSE tb.done

\* rst is high for the first cycle
BenchReset ==
    /\ tb.phase = "power"
    /\ Tick([NoPins EXCEPT !.rst = 1])
    /\ tb' = [tb EXCEPT !.phase = "run", !.ticks = @ + 1]
    /\ UNCHANGED <<simVars, trail, opts>>

\* a cycle of stall: the inputs stay as they are
BenchStall ==
    /\ tb.phase = "run"
    /\ Driven.stall = 1
    /\ Tick([pins EXCEPT !.rst = 0])
    /\ tb' = [tb EXCEPT !.count = @ + 1, !.ticks = @ + 1]
    /\ UNCHANGED <<simVars, trail, opts>>

\* the next vector: st is what stall_cycles returned, r what read or write did
\* on the object st left, p the inputs of the request
BenchIssue(web, data, st, r, p) ==
    /\ st.exc = NoError /\ r.exc = NoError
    /\ sc' = r.s
    /\ Tick(p)
    /\ tb' = [tb EXCEPT !.count = 0, !.inflight = TRUE, !.predicted = st.ret,
                        !.web = web, !.addr = p.addr,
                        !.expected = IF web = 1 THEN r.ret ELSE data,
                        !.done = Finished(Driven), !.ticks = @ + 1]
    /\ ops' = ops + 1
    /\ UNCHANGED <<cfg, dram0, last, expect, held, trail, opts>>

BenchReadAt(address, st) ==
    BenchIssue(1, None, st, read(st.s, address), Request(1, 0, address, pins.din))

BenchWriteAt(address, data, st) ==
    BenchIssue(0, data, st, write(st.s, address, FullMask, data),
               Request(0, (2 ^ num_bytes) - 1, address, data))

BenchRead ==
    /\ tb.phase = "run" /\ Driven.stall = 0 /\ ops < MaxReqs
    /\ \E address \in Addrs : BenchReadAt(address, stall_cycles(sc, address))

BenchWrite ==
    /\ tb.phase = "run" /\ Driven.stall = 0 /\ ops < MaxReqs
    /\ \E address \in Addrs : BenchWriteAt(address, DataOf(ops), stall_cycles(sc, address))

\* end_simulation after the last vector
BenchDone ==
    /\ tb.phase = "run" /\ Driven.stall = 0 /\ ops = MaxReqs
    /\ tb' = [tb EXCEPT !.phase = "end", !.inflight = FALSE, !.done = Finished(Driven)]
    /\ UNCHANGED <<simVars, ff, sram, main, pins, sig, trail, opts>>

NextBench == BenchReset \/ BenchStall \/ BenchRead \/ BenchWrite \/ BenchDone

SpecBench == InitBench /\ [][NextBench]_vars

(***************************************************************************)
(* The same test bench around the LRU design with four ways, where the     *)
(* ranks of a set take more than two values.                               *)
(***************************************************************************)
FourWays == Geometry("LRU", TRUE, 4, 2, 2, 2, 8, 8)

InitWays ==
    /\ cfg = FourWays
    /\ sc = sim_cache
    /\ dram0 = sim_cache.dram
    /\ last = NoCall
    /\ expect = [a \in Addrs |-> DramWord(dram0, a)]
    /\ held = [a \in Addrs |-> None]
    /\ ops = 0
    /\ trail = <<>>
    /\ opts = NoOptions
    /\ \E g \in 0 .. 1 : PowerOn(g, sim_cache.dram)

SpecWays == InitWays /\ [][NextBench]_vars

(***************************************************************************)
(* The design alone, clocked with any inputs from power-up.                *)
(***************************************************************************)
\* clock ticks of one behaviour
MaxTicks == 7

CtrlDesigns == {<<"NONE", 1, 2>>, <<"NONE", 1, 4>>, <<"FIFO", 2, 2>>, <<"LRU", 2, 2>>}

CtrlConfigs ==
    { Geometry(p[1], TRUE, p[2], p[3], 2, 1, 8, 8) : p \in CtrlDesigns }

\* what the request inputs carry in a tick: no request, or a read or a write
\* of the first word of the line with tag 1 of set 1
CtrlRequests ==
    { NoPins,
      Request(1, 0, merge_address(1, 1, 0), 0),
      Request(0, (2 ^ num_bytes) - 1, merge_address(1, 1, 0), 1) }

InitCtrl ==
    /\ cfg \in CtrlConfigs
    /\ sc = sim_cache
    /\ dram0 = sim_cache.dram
    /\ last = NoCall
    /\ expect = [a \in Addrs |-> DramWord(dram0, a)]
    /\ held = [a \in Addrs |-> None]
    /\ ops = 0
    /\ trail = <<>>
    /\ opts = NoOptions
    /\ \E g \in 0 .. 1 : PowerOn(g, sim_cache.dram)

\* ticks since the tick that had rst high, flush low and no request
Walk(p) ==
    IF p.rst = 1
    THEN IF p.flush = 0 /\ p.csb = 1 THEN 1 ELSE None
    ELSE IF tb.walk # None /\ p.flush = 0 /\ p.csb = 1 /\ tb.walk <= num_rows + 1
         THEN tb.walk + 1
         ELSE None

CtrlLatch(b, p) ==
    /\ Latch(b, p)
    /\ tb' = [tb EXCEPT !.ticks = @ + 1, !.walk = Walk(p),
                        !.entered = IF p.rst = 1 THEN b.st = RESET ELSE @]
    /\ UNCHANGED <<simVars, trail, opts>>

CtrlTick(p) == tb.ticks < MaxTicks /\ CtrlLatch(Blocks(Ctx(p)), p)

\* a tick with rst high, whatever flush and the request inputs are
CtrlReset ==
    \E q \in CtrlRequests, f \in 0 .. 1 : CtrlTick([q EXCEPT !.rst = 1, !.flush = f])

\* a tick with flush high and rst low
CtrlFlush == \E q \in CtrlRequests : CtrlTick([q EXCEPT !.flush = 1])

\* a tick with rst and flush low
CtrlStep == \E q \in CtrlRequests : CtrlTick(q)

NextCtrl == CtrlReset \/ CtrlFlush \/ CtrlStep

SpecCtrl == InitCtrl /\ [][NextCtrl]_vars

(***************************************************************************)
(* The scenarios of spec section 8 on the simulator: reads and writes of a *)
(* few addresses after construction, every order of them.                  *)
(***************************************************************************)
\* calls of one scenario
MaxCalls == 4

\* A: direct-mapped, 4 rows, 1 word per line, 8-bit word, 6-bit address
ScenarioA == Geometry("NONE", TRUE, 1, 4, 1, 4, 8, None)
\* B: 2-way LRU, 2 rows
ScenarioB == Geometry("LRU", TRUE, 2, 2, 2, 2, 8, None)
\* C: 2-way FIFO, 2 rows
ScenarioC == Geometry("FIFO", TRUE, 2, 2, 2, 2, 8, None)

\* the addresses of a scenario: 0 and 32 in A; three lines of set 0 in B and C
ScenarioAddrs ==
    IF cfg = ScenarioA THEN {0, 32} ELSE { merge_address(t, 0, 0) : t \in 0 .. MaxTag }

\* the data written: 5 and 9 in A
ScenarioData == IF cfg = ScenarioA THEN {5, 9} ELSE {5}

InitScenario ==
    /\ cfg \in {ScenarioA, ScenarioB, ScenarioC}
    /\ sc = sim_cache
    /\ dram0 = sim_cache.dram
    /\ last = NoCall
    /\ expect = [a \in Addrs |-> None]
    /\ held = [a \in Addrs |-> None]
    /\ ops = 0
    /\ trail = <<>>
    /\ opts = NoOptions
    /\ PowerOn(0, sim_cache.dram)

\* a call that returned r is added to the trail
ScenarioCall(op, address, data, r) ==
    /\ sc' = r.s
    /\ last' = Call(op, address, <<>>, data, r)
    /\ trail' = Append(trail, <<op, address, data>>)
    /\ ops' = ops + 1
    /\ UNCHANGED <<cfg, dram0, expect, held, ctrlVars, opts>>

ScenarioWrite ==
    /\ ops < MaxCalls /\ last.exc = NoError
    /\ \E address \in ScenarioAddrs, data \in ScenarioData :
          ScenarioCall("write", address, data, write(sc, address, FullMask, data))

ScenarioRead ==
    /\ ops < MaxCalls /\ last.exc = NoError
    /\ \E address \in ScenarioAddrs :
          ScenarioCall("read", address, None, read(sc, address))

NextScenario == ScenarioWrite \/ ScenarioRead

SpecScenario == InitScenario /\ [][NextScenario]_vars

(***************************************************************************)
(* The design in front of a CPU that keeps to the stall handshake, with a  *)
(* main memory slower than that of the test bench: rst for one cycle, then *)
(* requests, idle cycles and one flush in the cycles in which stall is     *)
(* low, and anything on the request inputs while stall is high.            *)
(***************************************************************************)
\* requests of one behaviour
MaxStallReqs == 3

StallDesigns == {<<"NONE", 1>>, <<"FIFO", 2>>, <<"LRU", 2>>}

\* cycles the slow main memory stays busy
SlowDelay == 2 * DRAM_DELAY

\* reads and writes of the first word of three lines of set 1
StallRequests ==
    { Request(1, 0, merge_address(t, 1, 0), 0) : t \in 0 .. MaxTag }
        \cup { Request(0, (2 ^ num_bytes) - 1, merge_address(t, 1, 0), 1 + t) : t \in 0 .. MaxTag }

\* what the CPU may drive while stall is high: nothing, or a write of another
\* word of set 0
StallInputs == { NoPins, Request(0, (2 ^ num_bytes) - 1, merge_address(0, 0, 1), 7) }

InitStall ==
    /\ cfg \in { Geometry(p[1], TRUE, p[2], 2, 2, 2, 8, 8) : p \in StallDesigns }
    /\ sc = sim_cache
    /\ dram0 = sim_cache.dram
    /\ last = NoCall
    /\ expect = [a \in Addrs |-> DramWord(dram0, a)]
    /\ held = [a \in Addrs |-> None]
    /\ ops = 0
    /\ trail = <<>>
    /\ opts = NoOptions
    /\ ff = PowerUp
    /\ sram = SramOf(0)
    /\ main = [MainOf(sim_cache.dram) EXCEPT !.delay = SlowDelay]
    /\ pins = NoPins
    /\ sig = Quiet
    /\ tb = TbInit

\* a cycle of stall: the CPU may change its inputs, the design must not look
StallWait ==
    /\ tb.phase = "run" /\ Driven.stall = 1
    /\ \E q \in StallInputs : Tick(q)
    /\ UNCHANGED <<simVars, tb, trail, opts>>

\* stall is low and the CPU presents a request
StallIssue ==
    /\ tb.phase = "run" /\ Driven.stall = 0 /\ ops < MaxStallReqs
    /\ \E q \in StallRequests : Tick(q)
    /\ ops' = ops + 1
    /\ UNCHANGED <<cfg, sc, dram0, last, expect, held, tb, trail, opts>>

\* stall is low and the CPU presents nothing
StallIdle ==
    /\ tb.phase = "run" /\ Driven.stall = 0
    /\ Tick(NoPins)
    /\ UNCHANGED <<simVars, tb, trail, opts>>

\* stall is low and the CPU asks for a flush, once
StallFlush ==
    /\ tb.phase = "run" /\ Driven.stall = 0 /\ tb.flushes = 0
    /\ Tick([NoPins EXCEPT !.flush = 1])
    /\ tb' = [tb EXCEPT !.flushes = 1]
    /\ UNCHANGED <<simVars, trail, opts>>

NextStall == BenchReset \/ StallWait \/ StallIssue \/ StallIdle \/ StallFlush

SpecStall == InitStall /\ [][NextStall]_vars

\* The same CPU with two requests in front of the direct-mapped and the FIFO
\* design, and a clock that never stops
MaxLiveReqs == 2

LiveDesigns == {<<"NONE", 1>>, <<"FIFO", 2>>}

InitLive ==
    /\ InitStall
    /\ cfg \in { Geometry(p[1], TRUE, p[2], 2, 2, 2, 8, 8) : p \in LiveDesigns }

LiveIssue ==
    /\ tb.phase = "run" /\ Driven.stall = 0 /\ ops < MaxLiveReqs
    /\ \E q \in StallRequests : Tick(q)
    /\ ops' = ops + 1
    /\ UNCHANGED <<cfg, sc, dram0, last, expect, held, tb, trail, opts>>

NextLive == BenchReset \/ StallWait \/ LiveIssue \/ StallIdle \/ StallFlush

SpecLive == InitLive /\ [][NextLive]_vars /\ WF_vars(NextLive)

(***************************************************************************)
(* The start-up of a run, init_opencache and then report_status, on every  *)
(* configuration file of a few sizes, policies and return types.  No cache *)
(* is built before report_status has accepted the configuration.           *)
(***************************************************************************)
ConfigFiles ==
    { Options(t, w, d, p, r) :
        t \in {16, 20, 24}, w \in {8, 16}, d \in BOOLEAN,
        p \in {NotGiven, "write-back", "write-through"}, r \in {"word", "line"} }

InitConfig ==
    /\ cfg = ScenarioC
    /\ sc = sim_cache
    /\ dram0 = sim_cache.dram
    /\ last = NoCall
    /\ expect = [a \in Addrs |-> None]
    /\ held = [a \in Addrs |-> None]
    /\ ops = 0
    /\ trail = <<>>
    /\ PowerOn(0, sim_cache.dram)
    /\ \E o \in ConfigFiles : opts = Loaded(o)

\* init_opencache calls fix_config after read_config
ConfigFix ==
    /\ opts.stage = "read"
    /\ opts' = [opts EXCEPT !.now = fix_config(@), !.stage = "fixed"]
    /\ UNCHANGED <<simVars, ctrlVars, trail>>

ConfigReport ==
    /\ opts.stage = "fixed"
    /\ opts' = [opts EXCEPT !.stage = "reported", !.error = report_status(opts.now)]
    /\ UNCHANGED <<simVars, ctrlVars, trail>>

NextConfig == ConfigFix \/ ConfigReport

SpecConfig == InitConfig /\ [][NextConfig]_vars


(***************************************************************************)
(* Properties of the simulator.                                            *)
(***************************************************************************)
AllAddrs == 0 .. (2 ^ address_size) - 1

\* C2: a read of an address returns the data of the last full-mask write to
\* it whenever its line has stayed in the cache since that write, whatever
\* other reads and writes came in between.
C2_RoundTrip ==
    (last.op = "read" /\ last.exc = NoError /\ held[last.address] # None)
        => last.ret = held[last.address]

\* a read served from a line written earlier, with a second line brought
\* into the cache in between
C2_Witness ==
    /\ last.op = "read" /\ last.hit
    /\ held[last.address] # None /\ last.ret = held[last.address]
    /\ last.valid_before >= 2 /\ ops >= 3

C4_UniqueTags ==
    \A r \in Rows : \A w1 \in Ways, w2 \in Ways :
        (w1 # w2 /\ sc.valid_array[r][w1] = 1 /\ sc.valid_array[r][w2] = 1)
            => sc.tag_array[r][w1] # sc.tag_array[r][w2]

\* a set with two valid ways, after a line of it was replaced
C4_Witness ==
    /\ \E r \in Rows : \E w1 \in Ways, w2 \in Ways :
            w1 # w2 /\ sc.valid_array[r][w1] = 1 /\ sc.valid_array[r][w2] = 1
    /\ ops >= 3 /\ ~last.hit /\ last.valid_before >= 2

Bijection(f) == { f[w] : w \in Ways } = Ways

ValidWays(r) == { w \in Ways : sc.valid_array[r][w] = 1 }

C8_Flush ==
    (last'.op = "flush" /\ ops' = ops + 1) =>
        /\ sc'.valid_array = sc.valid_array
        /\ sc'.tag_array = sc.tag_array
        /\ sc'.data_array = sc.data_array
        /\ \A a \in AllAddrs : find_way(sc, a) # None => is_dirty(sc', a) = 0

C8_FlushClean == [][C8_Flush]_vars

\* the state after a flush that found dirty lines
C8_Witness ==
    last.op = "flush" /\ last.dirty_before >= 2 /\ DirtyLines(sc) = {}

(***************************************************************************)
(* Properties of the controllers.                                          *)
(***************************************************************************)
\* C1: for every request of a back-to-back stream after reset the number of
\* cycles the design holds stall high equals what stall_cycles returned for
\* the address just before the request was applied to the simulator.
C1_StallsAsPredicted ==
    tb.done.valid => tb.done.measured = tb.done.predicted

\* C5: whenever rst is high in a tick the state register is RESET after it,
\* whatever flush, the state and the request inputs are; FLUSH is selected only
\* with rst low.
C5_RstFirst ==
    (tb.ticks > 0 /\ pins.rst = 1) => ff.state = RESET

\* C7: under FIFO the pointer of every set lies in 0..num_ways-1: in the
\* simulator after every request, and in the design in every value driven on
\* the write port of the use array and in every line of the array.
C7_PointerInRange ==
    policy = "FIFO" =>
        /\ \A r \in Rows : sc.fifo_array[r] \in Ways
        /\ sig.rp.use_write_csb = 0 => sig.rp.use_write_din \in Ways
        /\ \A r \in Rows : sram.use_array[r] \in Ways

\* a fill into the last way has just written pointer 0 to the use array, and
\* the pointer of the simulator has wrapped to 0 as well
C7_Witness ==
    /\ policy = "FIFO"
    /\ sig.state = WAIT_READ /\ sig.rp.use_write_csb = 0
    /\ sig.rp.way = num_ways - 1 /\ sig.rp.use_write_din = 0
    /\ sram.use_array[sig.rp.use_write_addr] = 0
    /\ sc.fifo_array[sig.rp.use_write_addr] = 0
    /\ ops >= 2

\* C9, the controllers: when the state register goes from RESET to IDLE the
\* tag line of every set is zero.
C9_Walk ==
    (ff.state = RESET /\ ff'.state = IDLE) =>
        \A r \in Rows : sram'.tag_array[r] = TagZero

\* C9: in every tick of the controllers that takes the state register from
\* RESET to IDLE, the tag line of every set 0..num_rows-1 has been written with
\* zero.
C9_WalkClearsEverySet == [][C9_Walk]_vars

C11_Repeat ==
    (/\ last.op = "stall_cycles" /\ last'.op = "stall_cycles"
     /\ last'.queries = last.queries + 1
     /\ last.exc = NoError /\ last'.address = last.address)
        => last'.ret = last.ret

\* C11: two consecutive calls of stall_cycles with the same address, with no
\* read, write, flush or reset in between, return the same number, in every
\* reachable state of the simulator.
C11_StallCyclesPure == [][C11_Repeat]_vars

\* the line the FLUSH walk stands on
FlushLine == sram.tag_array[ff.set][ff.way]

\* a write request driven on the main-memory port in a cycle of FLUSH
FlushWriteBack ==
    ff.state = FLUSH /\ sig'.state = FLUSH /\ sig'.mem.main_csb = 0 /\ sig'.mem.main_web = 0

C12_Flush ==
    /\ FlushWriteBack => (FlushLine.valid = 1 /\ FlushLine.dirty = 1)
    /\ (FlushWriteBack /\ sig'.main_stall = 0) =>
            sram'.tag_array[ff.set][ff.way].dirty = 0
    /\ (ff.state = FLUSH /\ ff'.state = IDLE) =>
            \A r \in Rows : \A w \in Ways : sram'.tag_array[r][w].dirty = 0

\* C12: in the FLUSH walk a write-back request is driven to main memory only
\* for a line that is valid and dirty, the dirty bit of a line written back is
\* cleared in the tag array, and no line is dirty when FLUSH returns to IDLE.
C12_FlushWalk == [][C12_Flush]_vars

\* C13: in every cycle in which a controller drives main_csb low, main_stall
\* is low.
C13_OneOutstanding == sig.mem.main_csb = 0 => sig.main_stall = 0

(***************************************************************************)
(* Hazards: a request to the set of the request before it.                 *)
(***************************************************************************)
\* a read was applied in the last tick, in the COMPARE cycle in which a write
\* of the same address completed as a hit
ReadAfterWriteHit ==
    /\ tb.inflight /\ tb.count = 0 /\ tb.web = 1
    /\ tb.done.valid /\ tb.done.web = 0 /\ tb.done.addr = tb.addr
    /\ sig.state = COMPARE

\* C14: in the FIFO and LRU controllers a read applied in the COMPARE cycle
\* of a write hit to the same address is served in the next cycle, which is a
\* COMPARE cycle with the bypass registers in use: stall is low and dout is the
\* word just written.
C14_BypassRead ==
    (policy \in {"FIFO", "LRU"} /\ ReadAfterWriteHit) =>
        /\ ff.state = COMPARE /\ ff.bypass = 1
        /\ Driven.stall = 0
        /\ Driven.dout = tb.done.expected
        /\ Driven.dout = tb.expected

\* the read is served with a word that main memory never held
C14_Witness ==
    /\ policy \in {"FIFO", "LRU"} /\ ReadAfterWriteHit
    /\ ff.state = COMPARE /\ Driven.stall = 0
    /\ Driven.dout = tb.done.expected
    /\ Driven.dout # DramWord(dram0, tb.addr)

\* the cycle after ReadAfterWriteHit, the read still in flight
ReadAfterBubble ==
    /\ tb.inflight /\ tb.count = 1 /\ tb.web = 1
    /\ tb.done.valid /\ tb.done.web = 0 /\ tb.done.addr = tb.addr
    /\ sig.state = WAIT_HAZARD

\* the controller's part: one cycle of WAIT_HAZARD with stall high, then the
\* read is served in COMPARE
C15_ControllerBubble ==
    (policy = "NONE" /\ ~cfg.data_hazard) =>
        /\ ReadAfterWriteHit => (ff.state = WAIT_HAZARD /\ Driven.stall = 1)
        /\ ReadAfterBubble =>
                (ff.state = COMPARE /\ Driven.stall = 0 /\ Driven.dout = tb.expected)

\* C15: direct-mapped with data_hazard = false, a read applied in the COMPARE
\* cycle of a write hit to the same set costs exactly one cycle of stall, spent
\* in WAIT_HAZARD, and stall_cycles returned 1 for that read.
C15_HazardBubble ==
    /\ C15_ControllerBubble
    /\ (policy = "NONE" /\ ~cfg.data_hazard /\ ReadAfterWriteHit) => tb.predicted = 1

(***************************************************************************)
(* The scenarios.                                                          *)
(***************************************************************************)
\* C16: scenario A. Addresses 0 and 32 have the same set and different tags;
\* after write(0, 5) and write(32, 9) the line of address 0 is out of the cache
\* and DRAM holds 5 for it; read(32) then returns 9 and a later read(0)
\* returns 5; no call raises.
C16_ScenarioA ==
    cfg = ScenarioA =>
        /\ parse_address(0)[2] = parse_address(32)[2]
        /\ parse_address(0)[1] # parse_address(32)[1]
        /\ trail = << <<"write", 0, 5>> >> => last.exc = NoError
        /\ trail = << <<"write", 0, 5>>, <<"write", 32, 9>> >> =>
                /\ last.exc = NoError
                /\ find_way(sc, 0) = None
                /\ sc.dram[DramLine(parse_address(0)[1], parse_address(0)[2])][0] = 5
        /\ trail = << <<"write", 0, 5>>, <<"write", 32, 9>>, <<"read", 32, None>> >> =>
                (last.exc = NoError /\ last.ret = 9)
        /\ trail = << <<"write", 0, 5>>, <<"write", 32, 9>>, <<"read", 32, None>>,
                      <<"read", 0, None>> >> =>
                (last.exc = NoError /\ last.ret = 5)

\* the LRU rank of the way that holds address a
RankOf(a) == sc.lru_array[parse_address(a)[2]][find_way(sc, a)]

\* scenario B with the lines A and B, and X the line of the miss that follows
C17_Script(A, B, X) ==
    /\ trail = << <<"write", A, 5>>, <<"write", B, 5>> >> =>
            /\ find_way(sc, A) # None /\ find_way(sc, B) # None
            /\ find_way(sc, A) # find_way(sc, B)
            /\ RankOf(A) = 0 /\ RankOf(B) = 1
    /\ trail = << <<"write", A, 5>>, <<"write", B, 5>>, <<"read", A, None>> >> =>
            /\ RankOf(A) = 1 /\ RankOf(B) = 0
            /\ way_to_evict(sc, parse_address(A)[2]) = find_way(sc, B)
    /\ \A op \in {"read", "write"}, d \in {5, None} :
            trail = << <<"write", A, 5>>, <<"write", B, 5>>, <<"read", A, None>>,
                       <<op, X, d>> >> =>
            /\ ~last.hit /\ last.exc = NoError
            /\ find_way(sc, B) = None
            /\ find_way(sc, A) # None /\ find_way(sc, X) # None

\* C17: scenario B on the 2-way LRU simulator, for any two lines A and B of
\* one set: after write(A), write(B) they are in different ways with ranks 0
\* and 1; read(A) gives A rank 1 and B rank 0; the next miss to the set
\* replaces B and keeps A.
C17_ScenarioB ==
    cfg = ScenarioB =>
        \A A \in ScenarioAddrs, B \in ScenarioAddrs, X \in ScenarioAddrs :
            (A # B /\ X # A /\ X # B) => C17_Script(A, B, X)

\* the miss after write(A), write(B), read(A) has replaced B
C17_Witness ==
    /\ cfg = ScenarioB /\ Len(trail) = 4
    /\ trail[1][1] = "write" /\ trail[2][1] = "write" /\ trail[1][2] # trail[2][2]
    /\ trail[3] = <<"read", trail[1][2], None>>
    /\ trail[4][2] \notin {trail[1][2], trail[2][2]}
    /\ find_way(sc, trail[2][2]) = None /\ find_way(sc, trail[1][2]) # None

(***************************************************************************)
(* Replacement.                                                            *)
(***************************************************************************)
C18_Hit ==
    policy = "FIFO" =>
        /\ (ops' = ops + 1 /\ find_way(sc, tb'.addr) # None) =>
                /\ sc'.fifo_array = sc.fifo_array
                /\ \A r \in Rows : way_to_evict(sc', r) = way_to_evict(sc, r)
        /\ (ff.state = COMPARE /\ sig'.state = COMPARE /\ sig'.out.stall = 0) =>
                /\ sig'.rp.use_write_csb = 1
                /\ sram'.use_array = sram.use_array

\* C18: under FIFO a request that hits, read or write, leaves the FIFO number
\* of every set as it was: in the simulator, and in the controller, which
\* does not write the use array in a COMPARE cycle that hits; so the victim of
\* the next miss does not depend on the hits before it.
C18_HitsKeepPointer == [][C18_Hit]_vars

\* a hit has completed in a set whose FIFO number points to the second way
C18_Witness ==
    /\ policy = "FIFO" /\ sig.state = COMPARE /\ sig.out.stall = 0
    /\ tb.done.valid /\ tb.done.measured = 0
    /\ sram.use_array[parse_address(tb.done.addr)[2]] = 1
    /\ sc.fifo_array[parse_address(tb.done.addr)[2]] = 1

\* the invalid ways of a set of the object s
InvalidWays(s, r) == { w \in Ways : s.valid_array[r][w] = 0 }

\* the step is a read or a write of an address that was not in the cache
MissOf(a) ==
    /\ ops' = ops + 1 /\ last'.op \in {"read", "write"} /\ last'.exc = NoError
    /\ last'.address = a /\ find_way(sc, a) = None

\* the counter when request asks for the victim: after the hazard cycle
CounterAt(a) == update_random(sc, BoolInt(is_data_hazard(sc, a))).random

C19_First ==
    cfg.replacement_policy = "RANDOM" =>
        /\ \A r \in Rows :
              way_to_evict(sc, r) =
                  IF InvalidWays(sc, r) # {}
                  THEN CHOOSE w \in InvalidWays(sc, r) : \A o \in InvalidWays(sc, r) : w <= o
                  ELSE sc.random
        /\ \A a \in Addrs : MissOf(a) =>
              find_way(sc', a) =
                  IF InvalidWays(sc, parse_address(a)[2]) # {}
                  THEN CHOOSE w \in InvalidWays(sc, parse_address(a)[2]) :
                          \A o \in InvalidWays(sc, parse_address(a)[2]) : w <= o
                  ELSE CounterAt(a)

\* C19 as stated: under Random, way_to_evict returns the lowest invalid way
\* of the set if the set has an invalid way and the counter otherwise, and a
\* miss fills that way.
C19_FirstInvalid == [][C19_First]_vars

C19_Last ==
    cfg.replacement_policy = "RANDOM" =>
        /\ \A r \in Rows :
              way_to_evict(sc, r) =
                  IF InvalidWays(sc, r) # {}
                  THEN CHOOSE w \in InvalidWays(sc, r) : \A o \in InvalidWays(sc, r) : o <= w
                  ELSE sc.random
        /\ \A a \in Addrs : MissOf(a) =>
              find_way(sc', a) =
                  IF InvalidWays(sc, parse_address(a)[2]) # {}
                  THEN CHOOSE w \in InvalidWays(sc, parse_address(a)[2]) :
                          \A o \in InvalidWays(sc, parse_address(a)[2]) : o <= w
                  ELSE CounterAt(a)

\* C19 amended: under Random, way_to_evict returns the highest invalid way of
\* the set if the set has an invalid way and the counter otherwise, and a miss
\* fills that way.
C19_LastInvalid == [][C19_Last]_vars

\* a miss in an empty set of two ways has filled the second way
C19_Witness ==
    /\ cfg.replacement_policy = "RANDOM" /\ num_ways = 2
    /\ last.op \in {"read", "write"} /\ ~last.hit /\ last.valid_before = 0
    /\ find_way(sc, last.address) = 1
    /\ sc.valid_array[parse_address(last.address)[2]][0] = 0

\* a miss in a full set has replaced the way the counter pointed to
C19_WitnessFull ==
    /\ cfg.replacement_policy = "RANDOM"
    /\ last.op \in {"read", "write"} /\ ~last.hit /\ last.valid_before = 2
    /\ sc.valid_array[0] = [w \in Ways |-> 1] /\ sc.valid_array[1] = [w \in Ways |-> 0]

(***************************************************************************)
(* The terms of stall_cycles.                                              *)
(***************************************************************************)
\* the step is a call of stall_cycles(a) that returned
StallOf(a) ==
    /\ last'.op = "stall_cycles" /\ last'.queries = last.queries + 1
    /\ last'.address = a /\ last'.exc = NoError

\* the way a miss of address a would replace is dirty
VictimDirty(a) ==
    sc.dirty_array[parse_address(a)[2]]
        [way_to_evict(update_random(sc, BoolInt(is_data_hazard(sc, a))),
                      parse_address(a)[2])] = 1

C20_Added ==
    \A a \in Addrs : StallOf(a) =>
        last'.ret = BoolInt(is_data_hazard(sc, a))
                    + IF find_way(sc, a) = None
                      THEN 1 + sc.dram_stalls + DRAM_DELAY
                             + (IF VictimDirty(a) THEN 2 * DRAM_DELAY + 1 ELSE 0)
                      ELSE 0

\* C20 as stated: stall_cycles is the hazard cycle plus, on a miss only, 1 for
\* COMPARE, the cycles main memory is still busy, DRAM_DELAY for the fill and
\* 2 * DRAM_DELAY + 1 more when the victim is dirty.
C20_SumAdditional == [][C20_Added]_vars

C20_Terms ==
    \A a \in Addrs : StallOf(a) =>
        last'.ret = BoolInt(is_data_hazard(sc, a))
                    + IF find_way(sc, a) = None
                      THEN 1 + sc.dram_stalls
                             + (IF VictimDirty(a) THEN 2 * DRAM_DELAY + 1 ELSE DRAM_DELAY)
                      ELSE 0

\* C20 amended: stall_cycles is the hazard cycle plus, on a miss only, 1 for
\* COMPARE, the cycles main memory is still busy, and either DRAM_DELAY when
\* the victim is clean or 2 * DRAM_DELAY + 1 in total when it is dirty.
C20_SumOfTerms == [][C20_Terms]_vars

\* stall_cycles has returned for a miss in the set of the request before it
\* whose victim is dirty
C20_Witness ==
    /\ last.op = "stall_cycles" /\ ~last.hit /\ last.exc = NoError
    /\ last.ret = 1 + 1 + 2 * DRAM_DELAY + 1
    /\ last.dirty_before >= 1

\* stall_cycles has returned for a miss while main memory was still busy
C20_WitnessBusy ==
    /\ last.op = "stall_cycles" /\ ~last.hit /\ last.exc = NoError
    /\ last.queries = 1 /\ last.dirty_before = 0 /\ last.valid_before >= 1
    /\ last.ret = 1 + 1 + DRAM_DELAY

(***************************************************************************)
(* The Random counter of the simulator.                                    *)
(***************************************************************************)
\* the step is a read or a write of address a that returned
RequestOf(a) ==
    /\ last'.op \in {"read", "write"} /\ ops' = ops + 1
    /\ last'.address = a /\ last'.exc = NoError

C21_Counter ==
    policy = "RANDOM" =>
        \A a \in Addrs :
            /\ RequestOf(a) =>
                  sc'.random = (sc.random + stall_cycles(sc, a).ret + 1) % num_ways
            /\ StallOf(a) => sc'.random = sc.random

\* C21: under Random a read or a write advances the counter by
\* stall_cycles(address) + 1 as computed just before it, modulo num_ways, and
\* a call of stall_cycles leaves the counter as it was.
C21_CounterFollowsCycles == [][C21_Counter]_vars

\* the same without the cycles main memory is still busy, which request
\* does not count
C21_CounterLessBusy ==
    [][policy = "RANDOM" =>
        \A a \in Addrs :
            /\ RequestOf(a) =>
                  sc'.random = (sc.random + stall_cycles(sc, a).ret
                                  - (IF find_way(sc, a) = None THEN sc.dram_stalls ELSE 0)
                                  + 1) % num_ways
            /\ StallOf(a) => sc'.random = sc.random]_vars

\* a miss under Random while main memory is still busy for a number of
\* cycles that is not a multiple of num_ways
C21_BusyMiss ==
    /\ policy = "RANDOM" /\ last.op = "flush" /\ ops < MaxOps
    /\ sc.dram_stalls % num_ways # 0

(***************************************************************************)
(* The simulator with data_hazard disabled.                                *)
(***************************************************************************)
\* no address is predicted a hazard bubble, and a hit costs no stall cycle
C27_NoBubble ==
    ~cfg.data_hazard =>
        \A a \in Addrs :
            /\ ~is_data_hazard(sc, a)
            /\ find_way(sc, a) # None => stall_cycles(sc, a).ret = 0

\* a read or a write that hits moves the Random counter by one
C27_HitStep ==
    ~cfg.data_hazard /\ policy = "RANDOM" =>
        \A a \in Addrs :
            RequestOf(a) /\ find_way(sc, a) # None =>
                sc'.random = (sc.random + 1) % num_ways

\* C27: with data_hazard disabled is_data_hazard is false for every address
\* in every state, stall_cycles is 0 for every hit, and the Random counter
\* advances by exactly 1 per hit.
C27_Hazardless == []C27_NoBubble /\ [][C27_HitStep]_vars

\* a hit served right after the miss that filled the line, in the same set,
\* with data_hazard disabled
C27_Witness ==
    /\ ~cfg.data_hazard /\ policy = "RANDOM"
    /\ last.op \in {"read", "write"} /\ last.hit /\ last.exc = NoError
    /\ ops = 2 /\ sc.prev_hit
    /\ sc.prev_set = parse_address(last.address)[2]

(***************************************************************************)
(* Properties of the start-up.                                             *)
(***************************************************************************)
\* the configuration asks for something the generator does not support
Unsupported(o) ==
    \/ o.total_size % o.word_size # 0
    \/ ~o.is_data_cache
    \/ o.write_policy \notin {NotGiven, "write-back"}
    \/ o.return_type # "word"

\* C26: a configuration whose total_size is not divisible by word_size, or
\* that asks for an instruction cache, a write policy other than write-back
\* or a return type other than word, is rejected with an error by
\* report_status, and at no step is what it asked for replaced by a supported
\* value.
C26_Rejected ==
    Unsupported(opts.given) =>
        /\ opts.stage = "reported" => opts.error # NoMessage
        /\ Unsupported(opts.now)
        /\ opts.now.total_size = opts.given.total_size
        /\ opts.now.word_size = opts.given.word_size
        /\ opts.now.is_data_cache = opts.given.is_data_cache
        /\ opts.now.return_type = opts.given.return_type
        /\ opts.given.write_policy # NotGiven =>
                opts.now.write_policy = opts.given.write_policy

\* report_status has rejected a configuration whose only unsupported request
\* is the one it tests last
C26_Witness ==
    /\ opts.stage = "reported" /\ opts.error # NoMessage
    /\ opts.given.return_type = "line"
    /\ opts.given.total_size % opts.given.word_size = 0
    /\ opts.given.is_data_cache /\ opts.given.write_policy = NotGiven

(***************************************************************************)
(* Properties of the request registers.                                    *)
(***************************************************************************)
\* the request of the registers hits, in the design of the policy
HitIn(c) ==
    IF policy \in {"FIFO", "LRU"} THEN \E i \in Ways : way_hit(c, i) ELSE check_hit(c)

\* the design stalls the request in the tick evaluated on c
StalledIn(c) ==
    \/ c.state \in {WRITE, WAIT_WRITE, READ, WAIT_HAZARD}
    \/ c.state = COMPARE /\ ~HitIn(c)
    \/ c.state = WAIT_READ /\ c.main_stall = 1

\* the request registers of the flip-flops f
RequestRegs(f) == <<f.tag, f.set, f.offset, f.web_reg, f.wmask_reg, f.din_reg>>

C22_Held ==
    (pins'.rst = 0 /\ pins'.flush = 0 /\ StalledIn(Ctx(pins'))) =>
        RequestRegs(ff') = RequestRegs(ff)

\* C22: while a request is stalled (COMPARE on a miss, WRITE, WAIT_WRITE,
\* READ, WAIT_HAZARD, WAIT_READ while main_stall is high) and rst and flush
\* are low, tag, set, offset, web_reg, wmask_reg and din_reg keep their values
\* whatever addr, web, wmask and din carry.
C22_StalledRequestHeld == [][C22_Held]_vars

\* the design has been through a cycle of WRITE with a request on its inputs
\* that differs from the one in the registers
C22_Witness ==
    /\ sig.state = WRITE /\ pins.rst = 0 /\ pins.flush = 0
    /\ pins.csb = 0 /\ pins.din # ff.din_reg /\ pins.addr # merge_address(ff.tag, ff.set, ff.offset)

\* the tick evaluated on c is a COMPARE cycle in which the request hits, with
\* rst and flush low
CompareHit(c) == c.rst = 0 /\ c.flush = 0 /\ c.state = COMPARE /\ HitIn(c)

\* the fields of addr and the other request inputs, as the design decodes them
Decoded(c) == IF policy \in {"FIFO", "LRU"} THEN nway_decode(c) ELSE direct_decode(c)

C23_Pending ==
    CompareHit(Ctx(pins')) =>
        RequestRegs(ff') = IF pins'.csb = 0 THEN RequestRegs(Decoded(Ctx(pins')))
                           ELSE RequestRegs(ff)

\* C23 as stated: in COMPARE on a hit the request registers take the decoded
\* inputs only when csb is low, and keep their values when csb is high.
C23_DecodeIfPending == [][C23_Pending]_vars

C23_Always ==
    CompareHit(Ctx(pins')) => RequestRegs(ff') = RequestRegs(Decoded(Ctx(pins')))

\* C23 amended: in COMPARE on a hit the request registers take the decoded
\* inputs whether csb is low or high.
C23_DecodeOnHit == [][C23_Always]_vars

\* a COMPARE cycle with a hit and csb high has left the set register at the
\* set field of the idle inputs, 0, the request that hit being one of set 1
C23_Witness ==
    /\ sig.state = COMPARE /\ sig.out.stall = 0 /\ sig.st = IDLE
    /\ pins.csb = 1 /\ pins.rst = 0 /\ pins.flush = 0
    /\ ff.set = 0 /\ ff.web_reg = 1 /\ ops > 0

(***************************************************************************)
(* C24.  The COMPARE cycle of the FIFO and LRU designs reads the shadow    *)
(* registers while bypass is high and the array outputs while it is low.   *)
(***************************************************************************)
\* next state (hit and dirty victim), memory controller signals and output
Decision(c) == [st |-> Blocks(c).st, mem |-> Blocks(c).mem, out |-> Blocks(c).out]

\* the same cycle with the shadow registers on the array outputs, bypass low
Shadowed(c) ==
    [c EXCEPT !.bypass = 0, !.tag_read_dout = c.new_tag,
              !.data_read_dout = c.new_data, !.use_read_dout = c.new_use]

\* the same cycle with the array outputs cleared
ArraysCleared(c) ==
    [c EXCEPT !.tag_read_dout = TagZero, !.data_read_dout = DataZero,
              !.use_read_dout = UseZero]

\* the same cycle with the shadow registers cleared
ShadowCleared(c) ==
    [c EXCEPT !.new_tag = TagZero, !.new_data = DataZero, !.new_use = UseZero]

\* C24: in a COMPARE cycle of the FIFO or LRU design with bypass high, the
\* next state, the memory controller signals (write-back address and data,
\* the line written on a write hit) and stall and dout are those computed from
\* new_tag, new_data and new_use, whatever the array outputs are; with bypass
\* low they are computed from the array outputs, whatever the registers hold
C24_ShadowInCompare ==
    \A p \in StallInputs \cup StallRequests :
        LET c == Ctx(p) IN
        (policy \in {"FIFO", "LRU"} /\ c.state = COMPARE) =>
            IF c.bypass = 1
            THEN /\ Decision(c) = Decision(Shadowed(c))
                 /\ Decision(c) = Decision(ArraysCleared(c))
            ELSE Decision(c) = Decision(ShadowCleared(c))

\* a COMPARE cycle with bypass high, main memory free, in which the request
\* misses and the victim is dirty in new_tag but not in the array output
C24_Witness ==
    LET c == Ctx(NoPins) IN
    /\ policy \in {"FIFO", "LRU"}
    /\ c.state = COMPARE /\ c.bypass = 1 /\ c.main_stall = 0
    /\ ~ \E i \in Ways : way_hit(c, i)
    /\ Blocks(c).mem.main_web = 0
    /\ Blocks(ArraysCleared([c EXCEPT !.bypass = 0])).mem.main_web = 1
    /\ c.new_tag # c.tag_read_dout

\* a COMPARE cycle with bypass high in which a write hits a line that the
\* array output does not hold yet
C24_WitnessHit ==
    LET c == Ctx(NoPins) IN
    /\ policy \in {"FIFO", "LRU"}
    /\ c.state = COMPARE /\ c.bypass = 1 /\ c.web_reg = 0
    /\ \E i \in Ways : way_hit(c, i) /\ c.tag_read_dout[i].valid = 0

(***************************************************************************)
(* C25.  The bypass flag follows a write of a line of the set of the next  *)
(* request.                                                                *)
(***************************************************************************)
\* the last tick wrote the tag and data line, or under LRU the use line, of
\* the set that the request presented in that tick addresses
WroteRequestedSet ==
    LET next_set == bit_select(pins.addr, offset_size, set_size) IN
    /\ pins.csb = 0
    /\ \/ /\ sig.mem.tag_write_csb = 0 /\ sig.mem.tag_write_addr = next_set
          /\ sig.mem.data_write_csb = 0 /\ sig.mem.data_write_addr = next_set
       \/ /\ policy = "LRU"
          /\ sig.rp.use_write_csb = 0 /\ sig.rp.use_write_addr = next_set

\* C25: the bypass flag is high only if the cycle before wrote a line of the
\* set of the request presented in it; it is low otherwise, also when rst or
\* flush was high in the cycle before and kept the write from happening
C25_ArmedAfterWrite ==
    ff.bypass = 1 => WroteRequestedSet

\* the same for the cycles that had rst and flush low
C25_ArmedAfterWriteUnlessFlush ==
    (ff.bypass = 1 /\ pins.rst = 0 /\ pins.flush = 0) => WroteRequestedSet

\* the flag is high after a cycle with rst and flush low
C25_Armed ==
    ff.bypass = 1 /\ pins.rst = 0 /\ pins.flush = 0

(***************************************************************************)
(* C28.  The direct-mapped design writes the old line of a dirty miss back *)
(* before it asks main memory for the new one.                             *)
(***************************************************************************)
\* the address main memory knows the line in the row `set` of the arrays by
VictimAddr(set) == Cat(set, set_size, sram.tag_array[set][0].tag)

\* the signals x send the line in the row `set` of the arrays to main memory
WritesBack(x, set) ==
    /\ x.main_csb = 0 /\ x.main_web = 0
    /\ x.main_addr = VictimAddr(set) /\ x.main_din = sram.data_array[set]

\* the signals x ask main memory for the line of the request registers
Fills(x, c) ==
    x.main_csb = 0 /\ x.main_web = 1 /\ x.main_addr = Cat(c.set, set_size, c.tag)

\* the row of the request holds a valid line of another tag
MissIn(c) == ~ (sram.tag_array[c.set][0].valid = 1 /\ sram.tag_array[c.set][0].tag = c.tag)
DirtyIn(c) == sram.tag_array[c.set][0].valid = 1 /\ sram.tag_array[c.set][0].dirty = 1

\* one cycle of the miss path with rst and flush low
C28_Step ==
    LET c == Ctx(pins')
        x == sig'.mem
    IN  (policy = "NONE" /\ pins'.rst = 0 /\ pins'.flush = 0) =>
        /\ (c.state = COMPARE /\ MissIn(c) /\ DirtyIn(c)) =>
              IF c.main_stall = 1
              THEN ff'.state = WRITE /\ x.main_csb = 1
              ELSE ff'.state = WAIT_WRITE /\ WritesBack(x, c.set)
                   /\ main'.mem[VictimAddr(c.set)] = sram.data_array[c.set]
        /\ c.state = WRITE =>
              /\ MissIn(c) /\ DirtyIn(c)
              /\ IF c.main_stall = 1
                 THEN ff'.state = WRITE /\ x.main_csb = 1
                 ELSE ff'.state = WAIT_WRITE /\ WritesBack(x, c.set)
                      /\ main'.mem[VictimAddr(c.set)] = sram.data_array[c.set]
        /\ c.state = WAIT_WRITE =>
              /\ MissIn(c) /\ DirtyIn(c)
              /\ main.mem[VictimAddr(c.set)] = sram.data_array[c.set]
              /\ IF c.main_stall = 1
                 THEN ff'.state = WAIT_WRITE /\ x.main_csb = 1
                 ELSE ff'.state = WAIT_READ /\ Fills(x, c)
        /\ (c.state = COMPARE /\ MissIn(c) /\ ~ DirtyIn(c)) =>
              /\ x.main_web = 1
              /\ IF c.main_stall = 1
                 THEN ff'.state = READ /\ x.main_csb = 1
                 ELSE ff'.state = WAIT_READ /\ Fills(x, c)
        /\ c.state = READ =>
              /\ MissIn(c) /\ ~ DirtyIn(c)
              /\ x.main_web = 1
              /\ IF c.main_stall = 1
                 THEN ff'.state = READ /\ x.main_csb = 1
                 ELSE ff'.state = WAIT_READ /\ Fills(x, c)
        /\ (ff'.state = READ /\ c.state # READ) =>
              c.state = COMPARE /\ MissIn(c) /\ ~ DirtyIn(c) /\ c.main_stall = 1
        /\ (ff'.state = WAIT_WRITE /\ c.state # WAIT_WRITE) =>
              c.state \in {COMPARE, WRITE} /\ WritesBack(x, c.set)

\* C28: on a dirty miss the direct-mapped design sends the old line (address
\* of the set and the old tag, data of the old line) to main memory before it
\* asks for the new line (address of the set and the latched tag): COMPARE
\* goes to WRITE while main_stall is high and to WAIT_WRITE in the cycle that
\* issues the write-back; WAIT_WRITE issues the fill in the cycle in which
\* main_stall is low and goes to WAIT_READ; a clean miss issues no write-back
\* and enters READ only if main_stall is high in COMPARE
C28_WriteBackBeforeFill == [][C28_Step]_vars

\* WAIT_WRITE has issued the fill of a dirty miss, and main memory holds the
\* old line, which is not the line it held at power-up
C28_Witness ==
    /\ policy = "NONE" /\ pins.rst = 0 /\ pins.flush = 0
    /\ sig.state = WAIT_WRITE /\ sig.main_stall = 0 /\ sig.st = WAIT_READ
    /\ sig.mem.main_csb = 0 /\ sig.mem.main_web = 1
    /\ main.mem[VictimAddr(ff.set)] = sram.data_array[ff.set]
    /\ main.mem[VictimAddr(ff.set)] # LineOfWords(dram0[VictimAddr(ff.set)])

\* READ is left for WAIT_READ after a clean miss that found main memory busy
C28_WitnessRead ==
    /\ policy = "NONE" /\ pins.rst = 0 /\ pins.flush = 0
    /\ sig.state = READ /\ sig.main_stall = 0 /\ sig.st = WAIT_READ

\* WRITE is left for WAIT_WRITE
C28_WitnessWrite ==
    /\ policy = "NONE" /\ pins.rst = 0 /\ pins.flush = 0
    /\ sig.state = WRITE /\ sig.main_stall = 0 /\ sig.st = WAIT_WRITE

(***************************************************************************)
(* C29.  The hazard test of the simulator and the WAIT_HAZARD state of the *)
(* direct-mapped design.                                                   *)
(***************************************************************************)
\* the request before the one at `address` was to the same set and was a
\* write hit or a miss
AfterWriteOrMiss(address) ==
    /\ sc.prev_set # None /\ parse_address(address)[2] = sc.prev_set
    /\ (sc.prev_hit /\ sc.prev_web = 0) \/ ~ sc.prev_hit

\* a step that applies a request to the direct-mapped design
C29_Issued == policy = "NONE" /\ ops' = ops + 1

C29_Step ==
    C29_Issued =>
        /\ is_data_hazard(sc, pins'.addr) <=> ff'.state = WAIT_HAZARD
        /\ ff'.state = WAIT_HAZARD <=> AfterWriteOrMiss(pins'.addr)

\* C29: for the direct-mapped design fed back-to-back requests,
\* is_data_hazard(addr) is true exactly if the design enters WAIT_HAZARD
\* before it compares that request, that is exactly if the request is to the
\* set of the request before it and that request was a write hit or a miss
C29_HazardAgrees == [][C29_Step]_vars

\* the same where OPTS.data_hazard is true
C29_StepArmed == (C29_Issued /\ cfg.data_hazard) => C29_Step

C29_HazardAgreesArmed == [][C29_StepArmed]_vars

\* the design alone enters WAIT_HAZARD exactly after a write hit or a miss of
\* the same set
C29_StepDesign == C29_Issued => (ff'.state = WAIT_HAZARD <=> AfterWriteOrMiss(pins'.addr))

C29_DesignBubble == [][C29_StepDesign]_vars

\* a request was applied to the design with data_hazard true and WAIT_HAZARD
\* was entered for it
C29_WitnessArmed ==
    /\ policy = "NONE" /\ cfg.data_hazard /\ ops > 1
    /\ ff.state = WAIT_HAZARD /\ tb.inflight /\ tb.count = 0 /\ tb.predicted > 0

(***************************************************************************)
(* C30.  WAIT_HAZARD of the direct-mapped design takes one cycle.          *)
(***************************************************************************)
C30_Step ==
    (policy = "NONE" /\ ff.state = WAIT_HAZARD) =>
        /\ ff'.state # WAIT_HAZARD
        /\ (pins'.rst = 0 /\ pins'.flush = 0) =>
              /\ ff'.state = COMPARE
              /\ RequestRegs(ff') = RequestRegs(ff)

\* C30: from WAIT_HAZARD the next state is COMPARE whatever csb and main_stall
\* are, rst and flush being low, the request registers keep their values
\* during it, and the state is never WAIT_HAZARD in two cycles in a row
C30_OneCycleOfHazard == [][C30_Step]_vars

\* COMPARE follows a cycle of WAIT_HAZARD in which main memory was busy and
\* the inputs carried a request other than the one in the registers
C30_Witness ==
    /\ policy = "NONE" /\ pins.rst = 0 /\ pins.flush = 0
    /\ sig.state = WAIT_HAZARD /\ sig.main_stall = 1 /\ pins.csb = 0
    /\ ff.state = COMPARE /\ ff.set # parse_set(pins.addr)

\* the same with main memory free and no request on the inputs
C30_WitnessIdle ==
    /\ policy = "NONE" /\ pins.rst = 0 /\ pins.flush = 0
    /\ sig.state = WAIT_HAZARD /\ sig.main_stall = 0 /\ pins.csb = 1
    /\ ff.state = COMPARE

(***************************************************************************)
(* C31.  A read hit leaves the dirty bits of its set as they are.          *)
(***************************************************************************)
\* the cycle with the inputs p is a COMPARE cycle in which a read hits
ReadHitIn(c) ==
    /\ c.rst = 0 /\ c.flush = 0 /\ c.state = COMPARE /\ c.web_reg = 1
    /\ \E i \in Ways : way_hit(c, i)

\* the dirty bits a request sees after the tick: those of the bypass
\* registers if bypass is high, of the row of the tag array otherwise
DirtySeen(f, array, set) ==
    [i \in Ways |-> IF f.bypass = 1 THEN f.new_tag[i].dirty ELSE array[set][i].dirty]

\* the step is a clock tick of the test bench
BenchTicked == tb'.ticks = tb.ticks + 1

C31_Step ==
    LET c == Ctx(pins') IN
    (BenchTicked /\ ReadHitIn(c)) =>
        /\ DirtySeen(ff', sram'.tag_array, c.set)
              = [i \in Ways |-> sram.tag_array[c.set][i].dirty]
        /\ \A i \in Ways : sram'.tag_array[c.set][i].dirty = sram.tag_array[c.set][i].dirty

\* the simulator: a read that hits changes no dirty bit
C31_SimStep ==
    (ops' = ops + 1 /\ pins'.csb = 0 /\ pins'.web = 1 /\ find_way(sc, pins'.addr) # None) =>
        sc'.dirty_array = sc.dirty_array

\* C31: a read never sets a dirty bit: after a read hit the dirty bit of every
\* line of the set, as a later request sees it from the tag array or from the
\* bypass registers, is what it was before the read
C31_ReadKeepsDirty == [][C31_Step /\ C31_SimStep]_vars

\* the same for the tag array and the simulator alone
C31_ReadKeepsArray ==
    [][C31_SimStep /\ ((BenchTicked /\ ReadHitIn(Ctx(pins'))) =>
                          sram'.tag_array[ff.set] = sram.tag_array[ff.set])]_vars

\* the same for the direct-mapped and FIFO designs
C31_ReadKeepsDirtyUnlessLRU == [][policy # "LRU" => (C31_Step /\ C31_SimStep)]_vars

\* a read hit of a clean line with a request to the same set behind it
C31_ReadHit ==
    /\ sig.state = COMPARE /\ sig.out.stall = 0 /\ pins.rst = 0 /\ pins.flush = 0
    /\ tb.done.valid /\ tb.done.web = 1 /\ pins.csb = 0
    /\ ff.set = bit_select(tb.done.addr, offset_size, set_size)
    /\ \E i \in Ways : sram.tag_array[ff.set][i] = TagEntry(addr_tag(tb.done.addr), 0, 1)

(***************************************************************************)
(* C32.  The use line the LRU design writes is the promotion of the way    *)
(* it touched.                                                             *)
(***************************************************************************)
\* the way of the hit in the cycle c
HitWay(c) == LastOf({i \in Ways : way_hit(c, i)})

\* the replacement signals y write the line `din` to the row of the request
WritesUse(y, c, din) ==
    y.use_write_csb = 0 /\ y.use_write_addr = c.set /\ y.use_write_din = din

C32_Step ==
    LET c == Ctx(pins')
        y == sig'.rp
    IN  (policy = "LRU" /\ BenchTicked /\ pins'.rst = 0 /\ pins'.flush = 0) =>
        /\ (c.state = COMPARE /\ HitWay(c) # None) =>
              WritesUse(y, c, lru_promote(use_line(c), HitWay(c)))
        /\ (c.state = WAIT_READ /\ c.main_stall = 0) =>
              WritesUse(y, c, lru_promote(use_line(c), c.way))
        /\ (ops' = ops + 1 /\ ops > 0) =>
              sram'.use_array[c.set] = sc.lru_array[c.set]

\* C32: the use line the LRU design writes on a COMPARE hit and when a fill
\* completes in WAIT_READ is the promotion of the touched way applied to the
\* ranks of the set (new_use if bypass is high, use_read_dout otherwise), and
\* the ranks so written are those update_lru leaves in the simulator, for
\* every number of ways
C32_PromotesTouchedWay == [][C32_Step]_vars

\* a second line has been filled into a set of the four-way design
C32_SecondFill ==
    /\ cfg = FourWays /\ pins.rst = 0 /\ pins.flush = 0
    /\ sig.state = WAIT_READ /\ sig.main_stall = 0 /\ ops > 2
    /\ \E i, j \in Ways : i # j /\ sram.tag_array[sig.rq.set][i].valid = 1
                                /\ sram.tag_array[sig.rq.set][j].valid = 1

\* ---------------------------------------------------------------------
\* stall and dout, cycle by cycle

\* the latched request hits in the cycle of context c
RequestHits(c) ==
    IF policy \in {"FIFO", "LRU"} THEN \E i \in Ways : way_hit(c, i) ELSE check_hit(c)

\* the cycles in which the output block lets the CPU go on
StallLowIn(c) ==
    \/ c.state = IDLE
    \/ c.state = COMPARE /\ RequestHits(c)
    \/ c.state = WAIT_READ /\ c.main_stall = 0

C33_Step ==
    LET c == Ctx(pins')
        o == sig'.out
    IN  /\ (o.stall = 0) <=> StallLowIn(c)
        /\ o.stall \in {0, 1}
        /\ (c.state = WAIT_READ /\ c.main_stall = 0) =>
               o.dout = WordFrom(c.main_dout, c.offset, 0)
        /\ (c.state = COMPARE /\ RequestHits(c) /\ policy = "NONE") =>
               o.dout = WordFrom(c.data_read_dout, c.offset, 0)
        /\ (c.state = COMPARE /\ RequestHits(c) /\ policy # "NONE") =>
               o.dout = WordFrom(data_line(c), HitWay(c) * words_per_line + c.offset, 0)
        /\ (c.state = IDLE \/ ~StallLowIn(c)) => o.dout = 0

\* C33: stall is low exactly in IDLE, in COMPARE when the latched request
\* hits and in WAIT_READ when main_stall is low, and high in every other
\* state and case; dout carries the requested word in the COMPARE-hit and
\* WAIT_READ-completion cycles and is zero in every other cycle.
C33_StallTable == [][C33_Step]_vars

\* a cycle of each stalled state has been seen, and a completion of each kind
C33_Stalled == sig.state \in {WRITE, WAIT_WRITE, READ} /\ sig.out.stall = 1
C33_Completed == sig.state = WAIT_READ /\ sig.main_stall = 0 /\ sig.out.stall = 0 /\ sig.out.dout # 0
C33_HitOut == sig.state = COMPARE /\ sig.out.stall = 0 /\ sig.out.dout # 0
C33_HazardOut == sig.state = WAIT_HAZARD /\ sig.out.stall = 1
C33_Witness == C33_Completed

\* ---------------------------------------------------------------------
\* the simulator's DRAM and the line a miss fills

\* a call of read or write is being made with this address
SimRequests(address) == last'.op \in {"read", "write"} /\ last'.address = address

\* DRAM after the call differs from DRAM before it at most in line k,
\* which holds line
DramOnlyLine(k, line) ==
    /\ sc'.dram[k] = line
    /\ \A j \in DOMAIN sc.dram : j # k => sc'.dram[j] = sc.dram[j]

\* the line of way v in the set is the one a miss on (tag, set) leaves
FilledLine(tag_decimal, set_decimal, offset_decimal, v) ==
    /\ sc'.valid_array[set_decimal][v] = 1
    /\ sc'.tag_array[set_decimal][v] = tag_decimal
    /\ sc'.dirty_array[set_decimal][v] = (IF last'.op = "write" THEN 1 ELSE 0)
    /\ \A w \in Words :
          (last'.op = "read" \/ w # offset_decimal) =>
              sc'.data_array[set_decimal][v][w] =
                  sc'.dram[tag_decimal * (2 ^ set_size) + set_decimal][w]

C34_Call(address) ==
    LET r == request(sc, address)
        p == parse_address(address)
        v == r.ret
    IN  IF r.exc # NoError THEN sc'.dram = sc.dram
        ELSE IF find_way(sc, address) # None THEN sc'.dram = sc.dram
        ELSE /\ IF sc.dirty_array[p[2]][v] = 1
                THEN DramOnlyLine(sc.tag_array[p[2]][v] * (2 ^ set_size) + p[2],
                                  sc.data_array[p[2]][v])
                ELSE sc'.dram = sc.dram
             /\ FilledLine(p[1], p[2], p[3], v)

C34_Step == \A address \in Addrs : SimRequests(address) => C34_Call(address)

\* C34: in the simulator a hit and a miss with a clean victim leave DRAM
\* unchanged; a miss with a dirty victim changes only the DRAM line at
\* (victim tag << set_size) + set, to the victim's data; the filled line
\* holds DRAM's line for (new tag, set), valid, and dirty iff the request
\* is a write.
C34_DramAndFill == [][C34_Step]_vars

\* a miss has just been served and DRAM is no longer what it was at the start
C34_WroteBack ==
    /\ last.op \in {"read", "write"} /\ last.exc = NoError /\ ~last.hit
    /\ last.dirty_before > 0
    /\ sc.dram # dram0

\* ---------------------------------------------------------------------
\* dirty implies valid

\* every line of the simulator that is dirty is valid
SimDirtyIsValid ==
    \A r \in Rows, w \in Ways : sc.dirty_array[r][w] = 1 => sc.valid_array[r][w] = 1

\* every entry of a tag line that is dirty is valid
LineDirtyIsValid(line) == \A w \in Ways : line[w].dirty = 1 => line[w].valid = 1

\* the tag line written in the last cycle, the tag array and the shadow
\* of the n-way designs
CtrlDirtyIsValid ==
    /\ sig.mem.tag_write_csb = 0 => LineDirtyIsValid(sig.mem.tag_write_din)
    /\ \A r \in Rows : LineDirtyIsValid(sram.tag_array[r])
    /\ policy \in {"FIFO", "LRU"} => LineDirtyIsValid(ff.new_tag)

\* C35: in every reachable state of the simulator and in every tag line a
\* controller writes (and so in the tag array and in the bypass shadow), a
\* line that is dirty is valid: the simulator's write-back decision, which
\* tests only the dirty bit, never writes back an invalid line.
C35_DirtyImpliesValid == SimDirtyIsValid /\ CtrlDirtyIsValid

\* a dirty line is being written by the controller and the simulator holds one
C35_DirtyWritten ==
    /\ sig.mem.tag_write_csb = 0
    /\ \E w \in Ways : sig.mem.tag_write_din[w].dirty = 1
    /\ \E r \in Rows, w \in Ways : sc.dirty_array[r][w] = 1

\* ---------------------------------------------------------------------
\* every request completes, every walk ends

\* the states in which a miss waits for main memory
MissStates == {WRITE, WAIT_WRITE, READ, WAIT_READ}

\* the last cycle completed a fill
FillDone == sig.state = WAIT_READ /\ sig.main_stall = 0 /\ sig.out.stall = 0

VictimIsFree(s, set_decimal) ==
    LET v == way_to_evict(s, set_decimal)
    IN  /\ v \in Ways
        /\ InvalidWays(s, set_decimal) # {} => v \in InvalidWays(s, set_decimal)

\* C37: in the simulator, under FIFO, LRU and Random alike, way_to_evict
\* returns a way index in [0, num_ways), never None, and the way it returns
\* is invalid whenever the set has an invalid way: a miss never evicts a
\* valid line while the set has room.
C37_EvictsInvalidFirst == \A r \in Rows : VictimIsFree(sc, r)

\* a miss has just filled a way of a set that still has room
C37_PartlyFilled ==
    /\ last.op \in {"read", "write"} /\ last.exc = NoError /\ ~last.hit
    /\ cfg.replacement_policy \in {"FIFO", "LRU", "RANDOM"}
    /\ LET r == parse_address(last.address)[2]
       IN  InvalidWays(sc, r) # {} /\ InvalidWays(sc, r) # Ways

\* ---------------------------------------------------------------------
\* the bypass shadow and the arrays

\* the shadow lines equal the rows of the arrays at the latched set
ShadowTagIsRow  == ff.new_tag  = sram.tag_array[ff.set]
ShadowDataIsRow == ff.new_data = sram.data_array[ff.set]
ShadowUseIsRow  == ff.new_use  = sram.use_array[ff.set]

\* the bypass is armed in an n-way design
Armed == policy \in {"FIFO", "LRU"} /\ ff.bypass = 1

\* C38: whenever the bypass is armed at the end of a cycle in the FIFO or
\* LRU controller, new_tag, new_data and new_use equal what the tag, data
\* and use arrays hold for that set after the writes of that cycle.
C38_ShadowIsArray == Armed => (ShadowTagIsRow /\ ShadowDataIsRow /\ ShadowUseIsRow)

\* the parts of it that hold
C38_ShadowDataIsArray == Armed => ShadowDataIsRow
C38_ShadowIsArrayFIFO == (Armed /\ policy = "FIFO") => (ShadowTagIsRow /\ ShadowDataIsRow /\ ShadowUseIsRow)

\* the bypass is armed after a write hit, and after a fill
C38_ArmedByWrite == Armed /\ sig.state = COMPARE /\ sig.rq.web_reg = 0
C38_ArmedByFill == Armed /\ sig.state = WAIT_READ

\* ---------------------------------------------------------------------
\* the memory-busy cycles carried over from a flush

\* the step is a read or a write that hits
SimHit == last'.op \in {"read", "write"} /\ last'.exc = NoError /\ last'.hit

\* dram_stalls becomes positive only in flush and stays within DRAM_DELAY + 1
C39_OnlyFlush ==
    /\ sc'.dram_stalls \in 0 .. DRAM_DELAY + 1
    /\ sc'.dram_stalls > sc.dram_stalls => last'.op = "flush"

\* a query that charges the carried-over cycles leaves none for a later one
C39_ChargedOnce ==
    (last'.op = "stall_cycles" /\ last'.exc = NoError /\ ~last'.hit) => sc'.dram_stalls = 0

\* the cycle of a hit is one cycle less for main memory to be busy
C39_HitElapses ==
    SimHit => sc'.dram_stalls = (IF sc.dram_stalls > 0 THEN sc.dram_stalls - 1 ELSE 0)

\* C39: the memory-busy delay carried over to the next miss is non-zero only
\* after a flush wrote a line back, never exceeds DRAM_DELAY + 1, is charged
\* to at most one request, and decreases by one with every cycle elapsed
\* since the flush, the cycle of each intervening hit included.
C39_CarriedDelay == [][C39_OnlyFlush /\ C39_ChargedOnce /\ C39_HitElapses]_vars

\* the parts of it that hold
C39_CarriedDelayBounds == [][C39_OnlyFlush /\ C39_ChargedOnce]_vars

\* a request hits while cycles of a flush write-back are still carried over
C39_HitWhileBusy ==
    /\ last.op \in {"read", "write"} /\ last.exc = NoError /\ last.hit
    /\ sc.dram_stalls > 0

\* ---------------------------------------------------------------------
\* parse_address and merge_address as inverses

\* every address of the geometry
AllAddresses == 0 .. (2 ^ address_size) - 1

\* parse_address returns three fields within the geometry, and merge_address
\* gives the address back
ParsesBack(a) ==
    LET p == parse_address(a)
    IN  /\ ~parse_raises(a)
        /\ p[1] \in 0 .. (2 ^ tag_size) - 1
        /\ p[2] \in 0 .. num_rows - 1
        /\ p[3] \in 0 .. words_per_line - 1
        /\ merge_address(p[1], p[2], p[3]) = a

\* merge_address followed by parse_address gives the three fields back
MergesBack(t, s, o) ==
    /\ merge_address(t, s, o) \in AllAddresses
    /\ parse_address(merge_address(t, s, o)) = <<t, s, o>>

AddressRoundTrip ==
    /\ \A a \in AllAddresses : ParsesBack(a)
    /\ \A t \in 0 .. (2 ^ tag_size) - 1, s \in Rows, o \in Words : MergesBack(t, s, o)

\* C40: for every geometry with tag_size + set_size + offset_size =
\* address_size, one word per line (offset_size = 0) included, parse_address
\* and merge_address are inverse in both directions, the parsed offset is
\* below words_per_line and the parsed set below num_rows.
C40_ParseMergeInverse ==
    (tag_size + set_size + offset_size = address_size) => AddressRoundTrip

\* the same for the geometries with more than one word per line
C40_ParseMergeInverseWords ==
    (tag_size + set_size + offset_size = address_size /\ offset_size > 0) => AddressRoundTrip

\* a call has parsed an address in a geometry of one word per line
C40_OneWordPerLine == offset_size = 0 /\ last.op \in {"read", "write"}

====
